---- MODULE Spec2Model ----
(***************************************************************************)
(* Model of the NiceHash rig device control loop                           *)
(* (NiceHashRigDevice.syncRigDetails and the handlers around it).          *)
(* and of the NiceHash API client (Api.getTime, Api.apiCall and            *)
(* getAuthHeader).                                                         *)
(*                                                                         *)
(* Numbers.  JavaScript numbers are modelled as exact rationals            *)
(* [n |-> numerator, d |-> denominator] with d > 0, kept in lowest terms.  *)
(* The record [n |-> 0, d |-> 0] stands for a missing value (undefined or  *)
(* null).  Floating-point rounding is not modelled.                        *)
(* Time is in milliseconds, as returned by Date.now().  One invocation of  *)
(* syncRigDetails is one atomic step that reads the clock once.            *)
(***************************************************************************)
EXTENDS Integers, Sequences, FiniteSets, TLC

\* ------------------------------------------------------------------ bounds

\* number of syncRigDetails invocations explored in one behaviour of Spec
MaxTicks == 3

\* number of syncRigDetails invocations explored in one behaviour of RunSpec
MaxRunTicks == 5

\* number of syncRigDetails invocations explored in one behaviour of MeterSpec
MaxMeterTicks == 4

\* number of apiCall invocations explored in one behaviour of ApiSpec
MaxCalls == 2

\* milliseconds the local clock advances in one behaviour of ApiSpec
MaxClock == 1

\* number of syncRigDetails invocations explored in one behaviour of AggSpec
MaxAggTicks == 2

\* number of syncRigDetails invocations explored in one behaviour of HomeSpec
MaxHomeTicks == 3

\* number of syncRigDetails invocations explored in one behaviour of LifeSpec
MaxLifeTicks == 3

\* number of syncRigDetails invocations that wait for getRigDetails at once
MaxInFlight == 2

\* number of syncRigDetails invocations explored in one behaviour of DashSpec
MaxDashTicks == 2

\* number of rigs paired besides the one that is followed
MaxPeers == 1

\* ------------------------------------------------------- rational numbers

Abs(x) == IF x < 0 THEN -x ELSE x

RECURSIVE GCD(_, _)
GCD(a, b) == IF b = 0 THEN a ELSE GCD(b, a % b)

Norm(n, d) ==
    LET g == GCD(Abs(n), d)
    IN  [n |-> n \div g, d |-> d \div g]

R(k) == [n |-> k, d |-> 1]
Q(n, d) == Norm(n, d)

Unset == [n |-> 0, d |-> 0]

IsNum(v) == v.d > 0

\* a truthiness test that takes the number 0 as true
TruthyOrZero(v) == v # Unset

\* JavaScript truthiness of a number or missing value
Truthy(v) == v.d > 0 /\ v.n # 0

\* v || dflt
OrElse(v, dflt) == IF Truthy(v) THEN v ELSE dflt

RAdd(a, b) == Norm(a.n * b.d + b.n * a.d, a.d * b.d)

RNeg(a) == [n |-> -a.n, d |-> a.d]

RSub(a, b) == RAdd(a, RNeg(b))

RMul(a, b) ==
    LET g1 == GCD(Abs(a.n), b.d)
        g2 == GCD(Abs(b.n), a.d)
    IN  IF a.n = 0 \/ b.n = 0 THEN R(0)
        ELSE [n |-> (a.n \div g1) * (b.n \div g2),
              d |-> (a.d \div g2) * (b.d \div g1)]

\* a / b for b # 0
RDiv(a, b) ==
    IF b.n > 0 THEN RMul(a, [n |-> b.d, d |-> b.n])
    ELSE RMul(a, [n |-> -b.d, d |-> -b.n])

RLt(a, b) == a.n * b.d < b.n * a.d

RGt(a, b) == RLt(b, a)

RMax(a, b) == IF RLt(a, b) THEN b ELSE a

\* Math.round: the nearest integer, halves towards +infinity
MathRound(a) == R((2 * a.n + a.d) \div (2 * a.d))

\* Math.round(x * 100) / 100
Round2(a) == RDiv(MathRound(RMul(a, R(100))), R(100))

\* ---------------------------------------------------- program constants

\* rolling average window (smartMagicNumber)
smartMagicNumber == 7

\* period of the rig detail sync timer, ms
SyncInterval == 60000

\* benchmark period: smartMagicNumber * 60000 ms
BenchmarkWindow == smartMagicNumber * 60000

\* forced re-benchmark timeout: 1000 * 60 * 60 * smartMagicNumber ms
RebenchmarkTimeout == 1000 * 60 * 60 * smartMagicNumber

\* the value tariff_limit reads as when nothing (or a falsy value) is stored
NoLimit == R(-1)

\* ------------------------------------------------------------- payloads

\* getRigDetails resolved to undefined (the request failed), also the
\* initial value of this.details
NoDetails == [type |-> "NONE"]

Speed(title, speed, suffix) ==
    [title |-> title, speed |-> speed, displaySuffix |-> suffix]

Device(status, temperature, powerUsage, load, speeds) ==
    [status |-> status, temperature |-> temperature,
     powerUsage |-> powerUsage, load |-> load, speeds |-> speeds]

V4Device(algorithmsSpeed, odv) ==
    [algorithmsSpeed |-> algorithmsSpeed, odv |-> odv]

\* hasDevices: the payload carries a devices array (possibly empty)
Rig(type, minerStatus, profitability, hasDevices, devices, hasV4Rigs, v4devices) ==
    [type |-> type, minerStatus |-> minerStatus,
     profitability |-> profitability,
     hasDevices |-> hasDevices, devices |-> devices,
     hasV4Rigs |-> hasV4Rigs, v4devices |-> v4devices]

\* the algorithm directory served by /main/api/v2/mining/algorithms,
\* order -> title
AlgorithmDirectory == (20 :> "DAGGERHASHIMOTO" @@ 22 :> "KAWPOW")

\* this.algorithms = []
NoAlgorithms == [o \in {} |-> ""]

GpuMining ==
    Device("MINING", R(60), R(10000), R(90), <<Speed("KAWPOW", R(50), "MH")>>)

GpuWaiting == Device("MINING", R(40), R(10000), R(0), << >>)

GpuIdle == Device("INACTIVE", R(30), R(0), R(0), << >>)

GpuOff ==
    Device("OFFLINE", R(0), R(500), R(0), <<Speed("KAWPOW", R(50), "MH")>>)

V4Mining ==
    V4Device(<<[algorithm |-> 20, speed |-> R(30000000)]>>,
             <<[key |-> "Power usage", value |-> R(10000)],
               [key |-> "Temperature", value |-> R(55)],
               [key |-> "Load", value |-> R(80)]>>)

\* a stopped rig: no device is mining
RigStopped ==
    Rig("MANAGED", "STOPPED", R(0), TRUE, <<GpuIdle, GpuOff>>, FALSE, << >>)

\* a mining rig paid 0.01 BTC/day (10 mBTC/day)
RigMining10 ==
    Rig("MANAGED", "MINING", Q(1, 100), TRUE, <<GpuMining, GpuOff>>, FALSE, << >>)

\* a mining rig paid 0.03 BTC/day (30 mBTC/day)
RigMining30 ==
    Rig("MANAGED", "MINING", Q(3, 100), TRUE, <<GpuMining>>, FALSE, << >>)

\* the payloads getRigDetails may resolve to
Payloads ==
    { NoDetails,
      Rig("", "UNKNOWN", R(0), FALSE, << >>, FALSE, << >>),
      Rig("UNMANAGED", "MINING", Q(1, 100), TRUE, <<GpuMining>>, FALSE, << >>),
      Rig("MANAGED", "OFFLINE", R(0), FALSE, << >>, FALSE, << >>),
      RigStopped,
      RigMining10,
      RigMining30,
      Rig("MANAGED", "MINING", Q(1, 100), TRUE, <<GpuWaiting>>, FALSE, << >>),
      Rig("MANAGED", "MINING", Q(3, 100), TRUE, << >>, TRUE, <<V4Mining>>) }

\* the payloads of a rig that is either stopped or mining
RunPayloads == {RigStopped, RigMining10}

\* a rig drawing 1000 W: mining, waiting for a job, stopped
Rig1kWMining ==
    Rig("MANAGED", "MINING", Q(1, 100), TRUE,
        <<Device("MINING", R(50), R(1000), R(90), <<Speed("KAWPOW", R(50), "MH")>>)>>,
        FALSE, << >>)

Rig1kWWaiting ==
    Rig("MANAGED", "MINING", Q(1, 100), TRUE,
        <<Device("MINING", R(40), R(1000), R(0), << >>)>>, FALSE, << >>)

\* no device is mining while the provider still reports 0.01 BTC/day
Rig1kWStopped ==
    Rig("MANAGED", "STOPPED", Q(1, 100), TRUE, <<GpuIdle>>, FALSE, << >>)

MeterPayloads == {NoDetails, Rig1kWStopped, Rig1kWMining, Rig1kWWaiting}

\* payloads that exercise the two device loops: every display suffix, every
\* kind of device status, v4 devices with two, one and no positive reading
AggPayloads ==
    { Rig("MANAGED", "MINING", Q(1, 100), TRUE,
          <<Device("MINING", R(50), R(100), R(90), <<Speed("SHA256", R(3), "H")>>),
            Device("MINING", R(60), R(200), R(80), <<Speed("SCRYPT", R(3), "kH")>>),
            Device("MINING", R(55), R(300), R(70), <<Speed("KAWPOW", R(50), "MH")>>)>>,
          FALSE, << >>),
      Rig("MANAGED", "MINING", Q(1, 100), TRUE,
          <<Device("MINING", R(50), R(100), R(90), <<Speed("SHA256", R(3), "GH")>>),
            Device("MINING", R(60), R(200), R(80),
                   <<Speed("SCRYPT", Q(3, 1000), "TH")>>),
            Device("MINING", R(55), R(300), R(70),
                   <<Speed("KAWPOW", Q(1, 1000), "PH"),
                     Speed("X11", Q(1, 1000000), "EH")>>)>>,
          FALSE, << >>),
      Rig("MANAGED", "MINING", Q(1, 100), TRUE,
          <<Device("MINING", R(50), R(100), R(90), <<Speed("ZHASH", R(70), "Sol")>>)>>,
          FALSE, << >>),
      Rig("MANAGED", "MINING", Q(1, 100), TRUE,
          <<Device("DISABLED", R(95), R(400), R(10), <<Speed("SHA256", R(7), "MH")>>),
            GpuOff, GpuWaiting,
            Device("INACTIVE", R(30), R(20), R(5), <<Speed("SCRYPT", R(9), "MH")>>),
            Device("MINING", R(45), R(150), R(60), <<Speed("KAWPOW", R(0), "MH")>>)>>,
          FALSE, << >>),
      RigStopped,
      Rig("MANAGED", "MINING", Q(3, 100), TRUE, << >>, TRUE,
          <<V4Device(<<[algorithm |-> 20, speed |-> R(30000000)],
                       [algorithm |-> 21, speed |-> R(500000)]>>,
                     <<[key |-> "Power usage", value |-> R(250)],
                       [key |-> "Temperature", value |-> R(65)],
                       [key |-> "Load", value |-> R(75)]>>),
            V4Device(<<[algorithm |-> 20, speed |-> R(0)]>>,
                     <<[key |-> "Power usage", value |-> R(30)],
                       [key |-> "Fan speed", value |-> R(40)]>>)>>),
      Rig("MANAGED", "MINING", Q(3, 100), TRUE, <<GpuMining, GpuOff>>, TRUE,
          <<V4Mining>>) }

\* ------------------------------------------- rig telemetry normalisation

\* a loop that skips disabled devices only
SkippedWhenDisabled(device) == device.status = "DISABLED"

\* a device that is skipped by the legacy loop
Skipped(device) == device.status = "DISABLED" \/ device.status = "OFFLINE"

\* the reading taken as it is, whatever its suffix
ToMHUnscaled(r, displaySuffix) == r

\* the switch on speed.displaySuffix: the reading converted to MH
\* (the EH divisor 0.000000000001 is applied as 0.000001 twice, to stay
\* within the integers of the checker)
ToMH(r, displaySuffix) ==
    CASE displaySuffix = "H"  -> RDiv(r, R(1000000))
      [] displaySuffix = "kH" -> RDiv(r, R(1000))
      [] displaySuffix = "GH" -> RDiv(r, Q(1, 1000))
      [] displaySuffix = "TH" -> RDiv(r, Q(1, 1000000))
      [] displaySuffix = "PH" -> RDiv(r, Q(1, 1000000000))
      [] displaySuffix = "EH" -> RDiv(RDiv(r, Q(1, 1000000)), Q(1, 1000000))
      [] OTHER -> r

\* the algorithm label after appending title (legacy: only when not included)
AppendTitle(algorithms, title, onlyIfNew) ==
    IF onlyIfNew /\ \E i \in 1..Len(algorithms) : algorithms[i] = title
    THEN algorithms
    ELSE Append(algorithms, title)

ZeroAgg ==
    [powerUsage |-> R(0), algorithms |-> << >>, hashrate |-> R(0),
     mining |-> 0, temperature |-> R(0), load |-> R(0)]

RECURSIVE AddSpeeds(_, _, _)
AddSpeeds(a, speeds, i) ==
    IF i > Len(speeds) THEN a
    ELSE AddSpeeds(
           [a EXCEPT !.algorithms = AppendTitle(@, speeds[i].title, TRUE),
                     !.hashrate = RAdd(@, ToMH(speeds[i].speed, speeds[i].displaySuffix))],
           speeds, i + 1)

\* one iteration of the loop over details.devices
AddDevice(a, device) ==
    IF Skipped(device) THEN a
    ELSE LET b == [a EXCEPT !.temperature = RMax(@, device.temperature),
                            !.powerUsage = RAdd(@, device.powerUsage),
                            !.load = RAdd(@, device.load)]
         IN  IF device.status # "MINING" THEN b
             ELSE AddSpeeds([b EXCEPT !.mining = @ + 1], device.speeds, 1)

RECURSIVE AddDevices(_, _, _)
AddDevices(a, devices, i) ==
    IF i > Len(devices) THEN a
    ELSE AddDevices(AddDevice(a, devices[i]), devices, i + 1)

\* a loop over algorithmsSpeed that drops a reading whose algorithm the
\* table does not hold
RECURSIVE AddAlgorithmsSpeedSkipUnknown(_, _, _, _)
AddAlgorithmsSpeedSkipUnknown(a, readings, table, i) ==
    IF i > Len(readings) THEN a
    ELSE LET algo == readings[i]
             r == RDiv(algo.speed, R(1000000))
         IN  IF algo.algorithm \in DOMAIN table
             THEN AddAlgorithmsSpeedSkipUnknown(
                    [a EXCEPT !.algorithms = AppendTitle(@, table[algo.algorithm], FALSE),
                              !.mining = IF RGt(r, R(0)) THEN @ + 1 ELSE @,
                              !.hashrate = RAdd(@, r)],
                    readings, table, i + 1)
             ELSE AddAlgorithmsSpeedSkipUnknown(a, readings, table, i + 1)

\* the loop over device.mdv.algorithmsSpeed
RECURSIVE AddAlgorithmsSpeed(_, _, _, _)
AddAlgorithmsSpeed(a, readings, table, i) ==
    IF i > Len(readings) THEN a
    ELSE LET algo == readings[i]
             r == RDiv(algo.speed, R(1000000))
             b == IF algo.algorithm \in DOMAIN table
                  THEN [a EXCEPT !.algorithms =
                                   AppendTitle(@, table[algo.algorithm], FALSE)]
                  ELSE a
         IN  AddAlgorithmsSpeed(
               [b EXCEPT !.mining = IF RGt(r, R(0)) THEN @ + 1 ELSE @,
                         !.hashrate = RAdd(@, r)],
               readings, table, i + 1)

RECURSIVE AddOdv(_, _, _)
AddOdv(a, odv, i) ==
    IF i > Len(odv) THEN a
    ELSE LET kp == odv[i]
         IN  AddOdv(
               [a EXCEPT
                  !.powerUsage = IF kp.key = "Power usage" THEN RAdd(@, kp.value) ELSE @,
                  !.temperature = IF kp.key = "Temperature" THEN RMax(@, kp.value) ELSE @,
                  !.load = IF kp.key = "Load" THEN RAdd(@, kp.value) ELSE @],
               odv, i + 1)

\* one iteration of the loop over details.v4.devices
AddV4Device(a, device, table) ==
    AddOdv(AddAlgorithmsSpeed(a, device.algorithmsSpeed, table, 1), device.odv, 1)

RECURSIVE AddV4Devices(_, _, _, _)
AddV4Devices(a, devices, table, i) ==
    IF i > Len(devices) THEN a
    ELSE AddV4Devices(AddV4Device(a, devices[i], table), devices, table, i + 1)

\* some v4 reading names an algorithm the lookup table does not hold,
\* so that the loop calls getAlgorithms
NeedsAlgorithms(details, table) ==
    /\ details.hasV4Rigs
    /\ \E i \in 1..Len(details.v4devices) :
         \E j \in 1..Len(details.v4devices[i].algorithmsSpeed) :
            details.v4devices[i].algorithmsSpeed[j].algorithm \notin DOMAIN table

\* getAlgorithms as called from the loop: the table is replaced when the
\* request succeeds and kept when it fails
RefreshedAlgorithms(details, table, fetchOk) ==
    IF NeedsAlgorithms(details, table) /\ fetchOk THEN AlgorithmDirectory ELSE table

\* the aggregates of one payload: both device loops
Aggregate(details, table) ==
    LET a == IF details.hasDevices THEN AddDevices(ZeroAgg, details.devices, 1)
             ELSE ZeroAgg
    IN  IF details.hasV4Rigs THEN AddV4Devices(a, details.v4devices, table, 1)
        ELSE a

\* ------------------------------------------------------------------ state

VARIABLES
    now,              \* the wall clock, Date.now()
    nticks,           \* syncRigDetails invocations so far
    lastSync,         \* this.lastSync
    lastMined,        \* this.lastMined
    benchmarkStart,   \* this.benchmarkStart
    rollingProfit,    \* this.rollingProfit
    details,          \* this.details
    algorithms,       \* this.algorithms
    store,            \* the device store (getStoreValue / setStoreValue)
    cap,              \* the capability values (setCapabilityValue)
    tariff,           \* homey.settings 'tariff', Unset until one is saved
    tariff_currency,  \* homey.settings 'tariff_currency' ("" when not set)
    min_profitability,\* device setting smart_mode_min_profitability
    bitcoinTicker,    \* Lib.bitcoinTicker, currency -> 15m price
    sent,             \* the setRigStatus requests syncRigDetails has issued, in order
    tick,             \* the locals and effects of the latest handler
    api,              \* the Api instance, with the outcome of its latest call
    signer,           \* the inputs and outputs of getAuthHeader (request signer)
    timers,           \* the device's two interval timers and its invocations in flight
    dashboard         \* the dashboard device: the other paired rigs' stores and its capability values

vars ==
    <<now, nticks, lastSync, lastMined, benchmarkStart, rollingProfit, details,
      algorithms, store, cap, tariff, tariff_currency, min_profitability,
      bitcoinTicker, sent, tick, api, signer, timers, dashboard>>

\* the device fields one invocation may change
DeviceFields ==
    [lastSync |-> lastSync, lastMined |-> lastMined,
     benchmarkStart |-> benchmarkStart, rollingProfit |-> rollingProfit]

\* ------------------------------------------------------ environment sets

\* the clock when the device is initialised: any epoch time, which is more
\* than RebenchmarkTimeout after 0
StartTime == 4 * RebenchmarkTimeout

\* time between two invocations that reach the rig: both are multiples of
\* SyncInterval, the timer firings in between being invocations whose
\* request failed, which return before they touch the device
Steps == {BenchmarkWindow, RebenchmarkTimeout}

\* one hour, ms
OneHour == 60 * SyncInterval

\* time between two invocations in the meter runs
MeterSteps == {BenchmarkWindow, OneHour}

\* 15m prices the ticker reports for USD
TickerRates == {R(1200), R(2400)}

TariffValues == {R(0), Q(1, 20), Q(1, 10)}

MinProfitabilityValues == {R(0), R(10)}

\* the ticker once loaded: USD only
LoadedTicker == ("USD" :> R(1200))

NoTicker == [c \in {} |-> R(0)]

\* ------------------------------------------------ profitability engine

\* a lookup that answers with the USD entry for a currency it does not list
BitcoinRateOrUSD(ticker, currency) ==
    IF currency \in DOMAIN ticker THEN ticker[currency]
    ELSE IF "USD" \in DOMAIN ticker THEN ticker["USD"]
    ELSE Unset

\* getBitcoinRate(currency)['15m'], Unset for null
BitcoinRate(ticker, currency) ==
    IF currency \in DOMAIN ticker THEN ticker[currency] ELSE Unset

\* the revenue as the provider reports it
RevenueAsReported(profitability, hashrate) == RMul(profitability, R(1000))

\* details.profitability * 1000.0, after the waiting-for-job override
Revenue(profitability, hashrate) ==
    IF ~Truthy(hashrate) THEN R(0) ELSE RMul(profitability, R(1000))

\* power_tariff * powerUsage / 1000 * 24
CostPerDay(power_tariff, powerUsage) ==
    RMul(RDiv(RMul(power_tariff, powerUsage), R(1000)), R(24))

\* bitcoinRate['15m'] / 1000.0
MBTCRate(rate) == RDiv(rate, R(1000))

\* the ratio of profit to cost, not scaled to a percentage
ProfitRatio(revenue, costPerDayMBTC) ==
    MathRound(RDiv(RSub(revenue, costPerDayMBTC), costPerDayMBTC))

\* Math.round((profit / costPerDayMBTC) * 100)
ProfitPct(revenue, costPerDayMBTC) ==
    MathRound(RMul(RDiv(RSub(revenue, costPerDayMBTC), costPerDayMBTC), R(100)))

\* the block guarded by power_tariff && power_tariff_currency
Profitability(power_tariff, currency, ticker, powerUsage, revenue, mining) ==
    LET rate == BitcoinRate(ticker, currency)
        priced == Truthy(power_tariff) /\ currency # "" /\ IsNum(rate)
        costPerDay == IF priced THEN CostPerDay(power_tariff, powerUsage) ELSE R(0)
        mBTCRate == IF priced THEN MBTCRate(rate) ELSE R(0)
        costPerDayMBTC == IF priced THEN RDiv(costPerDay, mBTCRate) ELSE R(0)
        defined == priced /\ mining > 0 /\ RGt(costPerDayMBTC, R(0))
    IN  [priced |-> priced,
         rate |-> rate,
         costPerDay |-> costPerDay,
         mBTCRate |-> mBTCRate,
         costPerDayMBTC |-> costPerDayMBTC,
         defined |-> defined,
         profitPct |-> IF defined THEN ProfitPct(revenue, costPerDayMBTC) ELSE R(0)]

\* ------------------------------------------------------------ autopilot

\* a start condition that does not ask whether autopilot is on
StartConditionAnyMode(smart_mode, tariff_limit, power_tariff, lastMinedAt, t) ==
    \/ tariff_limit = NoLimit
    \/ RGt(tariff_limit, power_tariff)
    \/ lastMinedAt = 0
    \/ (lastMinedAt # 0 /\ t - lastMinedAt > RebenchmarkTimeout)

\* a start condition that holds back while the latest command sent is a start
StartConditionUnlessPending(smart_mode, tariff_limit, power_tariff, lastMinedAt, t) ==
    /\ smart_mode
    /\ sent = << >> \/ sent[Len(sent)] # "START"
    /\ \/ tariff_limit = NoLimit
       \/ RGt(tariff_limit, power_tariff)
       \/ lastMinedAt = 0
       \/ (lastMinedAt # 0 /\ t - lastMinedAt > RebenchmarkTimeout)

\* the start condition without its tariff comparison
StartConditionNoDrop(smart_mode, tariff_limit, power_tariff, lastMinedAt, t) ==
    /\ smart_mode
    /\ \/ tariff_limit = NoLimit
       \/ lastMinedAt = 0
       \/ (lastMinedAt # 0 /\ t - lastMinedAt > RebenchmarkTimeout)

\* the start condition without its re-benchmark timeout
StartConditionNoTimeout(smart_mode, tariff_limit, power_tariff, lastMinedAt, t) ==
    /\ smart_mode
    /\ \/ tariff_limit = NoLimit
       \/ RGt(tariff_limit, power_tariff)
       \/ lastMinedAt = 0

\* the condition of the AUTOPILOT START LOGIC
StartCondition(smart_mode, tariff_limit, power_tariff, lastMinedAt, t) ==
    /\ smart_mode
    /\ \/ tariff_limit = NoLimit
       \/ RGt(tariff_limit, power_tariff)
       \/ lastMinedAt = 0
       \/ (lastMinedAt # 0 /\ t - lastMinedAt > RebenchmarkTimeout)

\* a rolling average with the two weights exchanged
EmaSwapped(rolling, profitPct) ==
    RAdd(RMul(rolling, Q(1, smartMagicNumber)),
         RMul(profitPct, Q(smartMagicNumber - 1, smartMagicNumber)))

\* the rolling average update
Ema(rolling, profitPct) ==
    RAdd(RMul(rolling, Q(smartMagicNumber - 1, smartMagicNumber)),
         RMul(profitPct, Q(1, smartMagicNumber)))

\* a benchmark period that already counts as complete at the boundary
BenchmarkCompleteAtBoundary(benchmarkStartAt, t) ==
    benchmarkStartAt > 0 /\ t - benchmarkStartAt >= BenchmarkWindow

\* benchmark period complete
BenchmarkComplete(benchmarkStartAt, t) ==
    benchmarkStartAt > 0 /\ t - benchmarkStartAt > BenchmarkWindow

\* a stop condition that is satisfied by either reading alone
StopConditionEither(rolling, profitPct, minProfitability) ==
    RLt(rolling, minProfitability) \/ RLt(profitPct, minProfitability)

\* STOP CONDITION
StopCondition(rolling, profitPct, minProfitability) ==
    RLt(rolling, minProfitability) /\ RLt(profitPct, minProfitability)

\* an else branch that raises only a limit that has been learned before
RaiseConditionLearnedOnly(power_tariff, tariff_limit) ==
    tariff_limit # NoLimit /\ RGt(power_tariff, tariff_limit)

\* an else branch that records every tariff that differs from the limit
RaiseConditionAny(power_tariff, tariff_limit) == power_tariff # tariff_limit

\* the else branch: raise the limit
RaiseCondition(power_tariff, tariff_limit) == RGt(power_tariff, tariff_limit)

\* the block guarded by if (hashrate), run with the clock at t
Assess(benchmarkStartAt, rolling, profitPct, minProfitability, power_tariff, tariff_limit, smart_mode, t) ==
    LET seeded == benchmarkStartAt = 0
        start == IF seeded THEN t ELSE benchmarkStartAt
        avg == IF seeded THEN profitPct ELSE Ema(rolling, profitPct)
        steady == BenchmarkComplete(start, t)
        stop == steady /\ StopCondition(avg, profitPct, minProfitability)
        raise == steady /\ ~stop /\ RaiseCondition(power_tariff, tariff_limit)
    IN  [benchmarkStart |-> start,
         rollingProfit |-> avg,
         seeded |-> seeded,
         steady |-> steady,
         stopDecision |-> stop,
         limitWritten |-> stop \/ raise,
         cmds |-> IF stop /\ smart_mode THEN <<"STOP">> ELSE << >>]

\* -------------------------------------------------- cumulative meters

\* the elapsed time counted in minutes
ElapsedMinutes(t, lastSyncAt) == Q(t - lastSyncAt, 1000 * 60)

\* elapsed fraction of an hour
ElapsedHours(t, lastSyncAt) == Q(t - lastSyncAt, 1000 * 60 * 60)

\* elapsed fraction of a day
ElapsedDays(t, lastSyncAt) == Q(t - lastSyncAt, 86400000)

\* every tick counts as having a previous sync
HasPreviousSyncAlways(lastSyncAt) == TRUE

\* this.lastSync > 0
HasPreviousSync(lastSyncAt) == lastSyncAt > 0

\* the meter updates of the block guarded by this.lastSync > 0
Meters(st, cp, powerUsage, revenue, costPerDayMBTC, mBTCRate, t, lastSyncAt) ==
    LET meter_power == OrElse(st.meter_power, R(0))
        power_add == RMul(RDiv(powerUsage, R(1000)), ElapsedHours(t, lastSyncAt))
        meter_profit == OrElse(st.meter_profit, R(0))
        mbtc_profit_add == RMul(revenue, ElapsedDays(t, lastSyncAt))
        new_meter_profit == RAdd(meter_profit, mbtc_profit_add)
        meter_cost == OrElse(st.meter_cost, R(0))
        mbtc_cost_add == RMul(costPerDayMBTC, ElapsedDays(t, lastSyncAt))
        new_meter_cost == RAdd(meter_cost, mbtc_cost_add)
        rated == Truthy(mBTCRate)
    IN  [store |->
           [st EXCEPT
              !.meter_power = RAdd(meter_power, power_add),
              !.meter_profit = new_meter_profit,
              !.meter_profit_scarab =
                  IF rated THEN RMul(new_meter_profit, mBTCRate) ELSE @,
              !.meter_cost = new_meter_cost,
              !.meter_cost_scarab =
                  IF rated THEN RMul(new_meter_cost, mBTCRate) ELSE @],
         cap |->
           [cp EXCEPT
              !.meter_power = Round2(meter_power),
              !.meter_profit = Round2(new_meter_profit),
              !.meter_profit_scarab =
                  IF rated THEN Round2(RMul(new_meter_profit, mBTCRate)) ELSE @,
              !.meter_cost = Round2(new_meter_cost),
              !.meter_cost_scarab =
                  IF rated THEN Round2(RMul(new_meter_cost, mBTCRate)) ELSE @]]

\* ------------------------------------------------------- syncRigDetails

\* what the latest handler did; the fields a handler does not reach keep
\* these values
NoTick ==
    [handler |-> "none", outcome |-> "none", at |-> 0, type |-> "NONE",
     power_tariff |-> R(0), smart_mode |-> FALSE, min_profitability |-> R(0),
     before |-> [lastSync |-> 0, lastMined |-> 0, benchmarkStart |-> 0,
                 rollingProfit |-> R(0)],
     tariff_limit |-> NoLimit,
     mining |-> 0, hashrate |-> R(0), powerUsage |-> R(0),
     rate |-> Unset,
     revenue |-> R(0), costPerDayMBTC |-> R(0), costDefined |-> FALSE,
     profitPct |-> R(0),
     integrated |-> FALSE, assessed |-> FALSE, seeded |-> FALSE,
     steady |-> FALSE, stopDecision |-> FALSE, limitWritten |-> FALSE,
     cmds |-> << >>, events |-> << >>]

\* an early return that lets a reading without a type through
AbortedUnlessTypeless(payload) ==
    payload = NoDetails \/ payload.type = "UNMANAGED"

\* an early return that lets an unmanaged rig through
AbortedUnlessUnmanaged(payload) ==
    payload = NoDetails \/ payload.type = ""

\* if (!details || !details.type || details.type === 'UNMANAGED') return
Aborted(payload) ==
    payload = NoDetails \/ payload.type = "" \/ payload.type = "UNMANAGED"

\* power_tariff_currency
Currency == IF tariff_currency = "" THEN "USD" ELSE tariff_currency

\* smart_mode_min_profitability as read from the settings
MinProfitability == OrElse(min_profitability, R(0))

\* the capabilities set before the device loops
HeaderCaps(payload, tariff_limit) ==
    [cap EXCEPT
       !.smart_mode_min_profitability = MinProfitability,
       !.measure_tariff_limit = IF tariff_limit # NoLimit THEN tariff_limit ELSE @,
       !.status = IF payload.minerStatus # "" THEN payload.minerStatus ELSE @]

\* the capabilities and store values set right after the device loops
AggregateCaps(cp, payload, agg) ==
    [cp EXCEPT
       !.algorithm = IF agg.algorithms = << >> THEN <<"-">> ELSE agg.algorithms,
       !.measure_temperature = agg.temperature,
       !.measure_load = agg.load,
       !.hashrate = Round2(agg.hashrate),
       !.onoff = ~(payload.minerStatus = "STOPPED" \/ payload.minerStatus = "OFFLINE"),
       !.measure_power = Round2(agg.powerUsage)]

AggregateStore(st, agg) ==
    [st EXCEPT !.hashrate = agg.hashrate, !.measure_power = agg.powerUsage]

\* the rig_status_changed trigger
StatusEvents(previous, payload) ==
    IF previous # NoDetails /\ previous.minerStatus # payload.minerStatus
    THEN <<payload.minerStatus>>
    ELSE << >>

\* an idle branch that leaves the stored cost reading in place
IdleStoreKeepCost(st) ==
    [st EXCEPT !.mining = R(0), !.measure_profit = R(0),
               !.measure_profit_scarab = R(0), !.measure_profit_percent = R(0),
               !.measure_cost_scarab = R(0)]

\* the branch taken when mining === 0
IdleStore(st) ==
    [st EXCEPT !.mining = R(0), !.measure_profit = R(0),
               !.measure_profit_scarab = R(0), !.measure_profit_percent = R(0),
               !.measure_cost = R(0), !.measure_cost_scarab = R(0)]

IdleCaps(cp) ==
    [cp EXCEPT !.measure_profit = R(0), !.measure_profit_scarab = R(0),
               !.measure_profit_percent = R(0), !.measure_cost = R(0),
               !.measure_cost_scarab = R(0)]

\* the store and capability values set by the profitability block
ProfitStore(st, payload, revenue, p) ==
    [st EXCEPT
       !.measure_profit = revenue,
       !.mining = R(1),
       !.measure_profit_scarab =
           IF p.priced
           THEN RMul(IF Truthy(revenue) THEN payload.profitability ELSE R(0), p.rate)
           ELSE @,
       !.measure_cost_scarab = IF p.priced THEN p.costPerDay ELSE @,
       !.measure_cost = IF p.priced THEN p.costPerDayMBTC ELSE @,
       !.measure_profit_percent = IF p.defined THEN p.profitPct ELSE @]

ProfitCaps(cp, payload, revenue, p) ==
    [cp EXCEPT
       !.measure_profit = Round2(revenue),
       !.measure_profit_scarab =
           IF p.priced
           THEN Round2(RMul(IF Truthy(revenue) THEN payload.profitability ELSE R(0),
                            p.rate))
           ELSE @,
       !.measure_cost_scarab = IF p.priced THEN Round2(p.costPerDay) ELSE @,
       !.measure_cost = IF p.priced THEN Round2(p.costPerDayMBTC) ELSE @,
       !.measure_profit_percent = IF p.defined THEN p.profitPct ELSE @]

\* one invocation of syncRigDetails: the request resolves to payload, dt
\* after the previous invocation; fetchOk is the outcome of the
\* getAlgorithms request a v4 reading may trigger
SyncRigDetails(payload, dt, fetchOk) ==
    /\ nticks' = nticks + 1
    /\ now' = now + dt
    /\ UNCHANGED <<tariff, tariff_currency, min_profitability, bitcoinTicker, api,
                   signer, dashboard>>
    /\ LET t == now + dt
           base == [NoTick EXCEPT !.handler = "syncRigDetails", !.at = t,
                                  !.type = payload.type,
                                  !.power_tariff = tariff,
                                  !.smart_mode = cap.smart_mode,
                                  !.min_profitability = MinProfitability,
                                  !.before = DeviceFields]
           tariff_limit == OrElse(store.tariff_limit, NoLimit)
       IN
       IF Aborted(payload)
       THEN /\ cap' = [cap EXCEPT !.smart_mode_min_profitability = MinProfitability]
            /\ tick' = [base EXCEPT !.outcome = "aborted"]
            /\ UNCHANGED <<lastSync, lastMined, benchmarkStart, rollingProfit,
                           details, algorithms, store, sent>>
       ELSE IF ~(payload.hasDevices \/ payload.hasV4Rigs)
       THEN /\ cap' = HeaderCaps(payload, tariff_limit)
            /\ lastSync' = t
            /\ tick' = [base EXCEPT !.outcome = "nodevices",
                                    !.tariff_limit = tariff_limit]
            /\ UNCHANGED <<lastMined, benchmarkStart, rollingProfit, details,
                           algorithms, store, sent>>
       ELSE
         \E table \in {RefreshedAlgorithms(payload, algorithms, fetchOk)} :
         \E agg \in {Aggregate(payload, table)} :
         \E cap1 \in {AggregateCaps(HeaderCaps(payload, tariff_limit), payload, agg)} :
         \E store1 \in {AggregateStore(store, agg)} :
         \E seen \in {[base EXCEPT !.tariff_limit = tariff_limit,
                                   !.mining = agg.mining,
                                   !.hashrate = agg.hashrate,
                                   !.powerUsage = agg.powerUsage,
                                   !.events = StatusEvents(details, payload)]} :
         /\ algorithms' = table
         /\ IF agg.mining = 0
            THEN /\ details' = payload
                 /\ store' = IdleStore(store1)
                 /\ cap' = IdleCaps(cap1)
                 /\ lastSync' = 0
                 /\ benchmarkStart' = 0
                 /\ rollingProfit' = R(0)
                 /\ UNCHANGED lastMined
                 /\ \E cmds \in {IF StartCondition(cap.smart_mode, tariff_limit,
                                                    tariff, lastMined, t)
                                  THEN <<"START">> ELSE << >>} :
                       /\ sent' = sent \o cmds
                       /\ tick' = [seen EXCEPT !.outcome = "idle", !.cmds = cmds]
            ELSE
              \E revenue \in {Revenue(payload.profitability, agg.hashrate)} :
              \E p \in {Profitability(tariff, Currency, bitcoinTicker,
                                      agg.powerUsage, revenue, agg.mining)} :
              \E integrated \in {HasPreviousSync(lastSync)} :
              \E m \in {IF integrated
                        THEN Meters(ProfitStore(store1, payload, revenue, p),
                                    ProfitCaps(cap1, payload, revenue, p),
                                    agg.powerUsage, revenue,
                                    p.costPerDayMBTC, p.mBTCRate, t, lastSync)
                        ELSE [store |-> ProfitStore(store1, payload, revenue, p),
                              cap |-> ProfitCaps(cap1, payload, revenue, p)]} :
              \E assessed \in {integrated /\ Truthy(agg.hashrate)} :
              \E a \in {Assess(benchmarkStart, rollingProfit, p.profitPct,
                               MinProfitability, tariff, tariff_limit,
                               cap.smart_mode, t)} :
              \* details.profitability = 0 is written into the stored payload
              /\ details' = IF Truthy(agg.hashrate) THEN payload
                            ELSE [payload EXCEPT !.profitability = R(0)]
              /\ lastMined' = t
              /\ lastSync' = t
              /\ sent' = IF assessed THEN sent \o a.cmds ELSE sent
              /\ cap' = m.cap
              /\ store' = IF assessed /\ a.limitWritten
                          THEN [m.store EXCEPT !.tariff_limit = tariff]
                          ELSE m.store
              /\ benchmarkStart' = IF assessed THEN a.benchmarkStart ELSE benchmarkStart
              /\ rollingProfit' = IF assessed THEN a.rollingProfit ELSE rollingProfit
              /\ tick' = [seen EXCEPT
                            !.outcome = "mining",
                            !.rate = IF Truthy(tariff) THEN p.rate ELSE Unset,
                            !.revenue = revenue,
                            !.costPerDayMBTC = p.costPerDayMBTC,
                            !.costDefined = p.defined,
                            !.profitPct = p.profitPct,
                            !.integrated = integrated,
                            !.assessed = assessed,
                            !.seeded = assessed /\ a.seeded,
                            !.steady = assessed /\ a.steady,
                            !.stopDecision = assessed /\ a.stopDecision,
                            !.limitWritten = assessed /\ a.limitWritten,
                            !.cmds = IF assessed THEN a.cmds ELSE << >>]

\* ------------------------------------------------------------ environment

\* the user sets the electricity tariff
SetTariff(v) ==
    /\ tariff # v
    /\ tariff' = v
    /\ UNCHANGED <<dashboard, timers, signer, api, now, nticks, lastSync, lastMined, benchmarkStart, rollingProfit,
                   details, algorithms, store, cap, tariff_currency,
                   min_profitability, bitcoinTicker, sent, tick>>

\* the flow card set_smart_mode: setCapabilityValue('smart_mode', value)
SetSmartMode(v) ==
    /\ cap.smart_mode # v
    /\ cap' = [cap EXCEPT !.smart_mode = v]
    /\ UNCHANGED <<dashboard, timers, signer, api, now, nticks, lastSync, lastMined, benchmarkStart, rollingProfit,
                   details, algorithms, store, tariff, tariff_currency,
                   min_profitability, bitcoinTicker, sent, tick>>

\* a settings handler that starts the rig only when autopilot is on
SetMinProfitabilityOnAutopilot(v) ==
    /\ min_profitability # v
    /\ min_profitability' = v
    /\ tick' = [NoTick EXCEPT !.handler = "onSettings",
                              !.cmds = IF cap.smart_mode THEN <<"START">> ELSE << >>]
    /\ UNCHANGED <<dashboard, timers, signer, api, now, nticks, lastSync, lastMined, benchmarkStart, rollingProfit,
                   details, algorithms, store, cap, tariff, tariff_currency,
                   bitcoinTicker, sent>>

\* the device setting smart_mode_min_profitability is changed: onSettings
\* answers with setRigStatus(id, true)
SetMinProfitability(v) ==
    /\ min_profitability # v
    /\ min_profitability' = v
    /\ tick' = [NoTick EXCEPT !.handler = "onSettings", !.cmds = <<"START">>]
    /\ UNCHANGED <<dashboard, timers, signer, api, now, nticks, lastSync, lastMined, benchmarkStart, rollingProfit,
                   details, algorithms, store, cap, tariff, tariff_currency,
                   bitcoinTicker, sent>>

\* getBitcoinTicker: the first successful fetch of the ticker
LoadTicker ==
    /\ bitcoinTicker = NoTicker
    /\ bitcoinTicker' = LoadedTicker
    /\ UNCHANGED <<dashboard, timers, signer, api, now, nticks, lastSync, lastMined, benchmarkStart, rollingProfit,
                   details, algorithms, store, cap, tariff, tariff_currency,
                   min_profitability, sent, tick>>

\* the flow card set_smart_mode_min_profitability: setSettings, then
\* setRigStatus(id, true); the value may be the one already set
SetSmartModeMinProfitability(v) ==
    /\ min_profitability' = v
    /\ tick' = [NoTick EXCEPT !.handler = "setSmartModeMinProfitability",
                              !.cmds = <<"START">>]
    /\ UNCHANGED <<dashboard, timers, signer, api, now, nticks, lastSync, lastMined, benchmarkStart, rollingProfit,
                   details, algorithms, store, cap, tariff, tariff_currency,
                   bitcoinTicker, sent>>

\* getBitcoinTicker: the fetch rejects, or the text is not JSON and
\* JSON.parse throws; the catch swallows the error
TickerRefreshFailed ==
    /\ tick' = [NoTick EXCEPT !.handler = "getBitcoinTicker", !.outcome = "failed"]
    /\ UNCHANGED <<dashboard, timers, signer, api, now, nticks, lastSync, lastMined, benchmarkStart, rollingProfit,
                   details, algorithms, store, cap, tariff, tariff_currency,
                   min_profitability, bitcoinTicker, sent>>

\* ------------------------------------------------------------------ spec

\* ------------------------------------------------------------ API client

\* A text is a sequence of one-character strings.  NUL stands for the
\* character \0, which none of the texts below contains.
NUL == "NUL"

Undefined == [kind |-> "undefined"]

Str(text) == [kind |-> "string", text |-> text]

Num(n) == [kind |-> "number", n |-> n]

\* an object: its own enumerable properties, in property order
Obj(pairs) == [kind |-> "object", pairs |-> pairs]

Pair(key, value) == [key |-> key, value |-> value]

\* JavaScript truthiness of a value
JsTruthy(v) ==
    CASE v.kind = "undefined" -> FALSE
      [] v.kind = "string" -> v.text # << >>
      [] v.kind = "number" -> v.n # 0
      [] OTHER -> TRUE

DecimalDigits == <<"0", "1", "2", "3", "4", "5", "6", "7", "8", "9">>

\* Number.prototype.toString of an integer
RECURSIVE Decimal(_)
Decimal(n) ==
    IF n < 0 THEN <<"-">> \o Decimal(-n)
    ELSE IF n < 10 THEN <<DecimalDigits[n + 1]>>
    ELSE Decimal(n \div 10) \o <<DecimalDigits[(n % 10) + 1]>>

\* the position of the first c in text, 0 when there is none
IndexOf(text, c) ==
    IF \E i \in 1..Len(text) : text[i] = c
    THEN CHOOSE i \in 1..Len(text) :
            text[i] = c /\ \A j \in 1..(i - 1) : text[j] # c
    ELSE 0

\* String.prototype.split(sep) for a one-character separator
RECURSIVE Split(_, _)
Split(text, sep) ==
    LET i == IndexOf(text, sep)
    IN  IF i = 0 THEN <<text>>
        ELSE <<SubSeq(text, 1, i - 1)>> \o Split(SubSeq(text, i + 1, Len(text)), sep)

HasKey(pairs, key) == \E i \in 1..Len(pairs) : pairs[i].key = key

ValueOf(pairs, key) == pairs[CHOOSE i \in 1..Len(pairs) : pairs[i].key = key].value

Keys(pairs) == {pairs[i].key : i \in 1..Len(pairs)}

\* obj[key] = value: an existing property keeps its place
SetProperty(pairs, key, value) ==
    IF HasKey(pairs, key)
    THEN [i \in 1..Len(pairs) |->
            IF pairs[i].key = key THEN Pair(key, value) ELSE pairs[i]]
    ELSE Append(pairs, Pair(key, value))

\* qs.parse meeting a key again: the values are collected in an array
Combine(pairs, key, value) ==
    IF HasKey(pairs, key)
    THEN LET old == ValueOf(pairs, key)
         IN  SetProperty(pairs, key,
                 [kind |-> "array",
                  items |-> IF old.kind = "array" THEN Append(old.items, value)
                            ELSE <<old, value>>])
    ELSE Append(pairs, Pair(key, value))

RECURSIVE ParseParts(_, _, _)
ParseParts(parts, i, pairs) ==
    IF i > Len(parts) THEN pairs
    ELSE LET part == parts[i]
             eq == IndexOf(part, "=")
             key == IF eq = 0 THEN part ELSE SubSeq(part, 1, eq - 1)
             val == IF eq = 0 THEN << >> ELSE SubSeq(part, eq + 1, Len(part))
         IN  IF part = << >> THEN ParseParts(parts, i + 1, pairs)
             ELSE ParseParts(parts, i + 1, Combine(pairs, key, Str(val)))

\* qs.parse(text) for texts without percent escapes and brackets: the
\* properties of the parsed object, every value a string
QsParse(text) == ParseParts(Split(text, "&"), 1, << >>)

\* encodeURIComponent of one character
EncodeChar(c) ==
    CASE c = "=" -> <<"%", "3", "D">>
      [] c = "&" -> <<"%", "2", "6">>
      [] c = "?" -> <<"%", "3", "F">>
      [] c = "/" -> <<"%", "2", "F">>
      [] c = "[" -> <<"%", "5", "B">>
      [] c = "]" -> <<"%", "5", "D">>
      [] OTHER -> <<c>>

RECURSIVE Encode(_)
Encode(text) ==
    IF text = << >> THEN << >> ELSE EncodeChar(Head(text)) \o Encode(Tail(text))

\* String(value) of a string or a number
Scalar(v) == IF v.kind = "number" THEN Decimal(v.n) ELSE v.text

\* the key=value entries qs.stringify writes, property after property
RECURSIVE AllEntries(_)
AllEntries(pairs) ==
    IF pairs = << >> THEN << >>
    ELSE LET pair == Head(pairs)
         IN  (IF pair.value.kind = "array"
              THEN [i \in 1..Len(pair.value.items) |->
                      Encode(pair.key \o <<"[">> \o Decimal(i - 1) \o <<"]">>)
                         \o <<"=">> \o Encode(Scalar(pair.value.items[i]))]
              ELSE <<Encode(pair.key) \o <<"=">> \o Encode(Scalar(pair.value))>>)
             \o AllEntries(Tail(pairs))

RECURSIVE Join(_, _)
Join(texts, sep) ==
    IF texts = << >> THEN << >>
    ELSE IF Len(texts) = 1 THEN texts[1]
    ELSE texts[1] \o <<sep>> \o Join(Tail(texts), sep)

\* qs.stringify(object)
QsStringify(pairs) == Join(AllEntries(pairs), "&")

\* JSON.stringify of an object of strings and numbers
JsonStringify(pairs) ==
    LET member(pair) ==
           <<"\"">> \o pair.key \o <<"\"", ":">>
              \o (IF pair.value.kind = "number" THEN Decimal(pair.value.n)
                  ELSE <<"\"">> \o pair.value.text \o <<"\"">>)
    IN  <<"{">> \o Join([i \in 1..Len(pairs) |-> member(pairs[i])], ",") \o <<"}">>

\* the own enumerable properties ...value copies
OwnPairs(v) ==
    CASE v.kind = "object" -> v.pairs
      [] v.kind = "string" ->
            [i \in 1..Len(v.text) |-> Pair(Decimal(i - 1), Str(<<v.text[i]>>))]
      [] OTHER -> << >>

RECURSIVE SpreadInto(_, _)
SpreadInto(target, pairs) ==
    IF pairs = << >> THEN target
    ELSE SpreadInto(SetProperty(target, Head(pairs).key, Head(pairs).value), Tail(pairs))

\* property order: index keys first, then the other keys as inserted
PropertyOrder(pairs) ==
    LET isIndex(key) ==
           key # << >>
              /\ \A i \in 1..Len(key) : \E d \in 1..10 : key[i] = DecimalDigits[d]
    IN  SelectSeq(pairs, LAMBDA p : isIndex(p.key))
           \o SelectSeq(pairs, LAMBDA p : ~isIndex(p.key))

\* if (pathQuery) query = { ...qs.parse(pathQuery), ...query }
MergeQuery(pathQuery, query) ==
    IF JsTruthy(pathQuery)
    THEN Obj(PropertyOrder(SpreadInto(SpreadInto(<< >>, QsParse(pathQuery.text)),
                                      OwnPairs(query))))
    ELSE query

\* const [pathOnly, pathQuery] = path.split('?')
PathOnly(path) == Split(path, "?")[1]

PathQuery(path) ==
    IF Len(Split(path, "?")) > 1 THEN Str(Split(path, "?")[2]) ELSE Undefined

\* the object literal handed to getAuthHeader, without its body
AuthInputWithoutBody(method, pathOnly, query, body) ==
    [method |-> method, path |-> pathOnly, query |-> query, body |-> Undefined]

\* { method, path: pathOnly, query, body }
AuthInput(method, pathOnly, query, body) ==
    [method |-> method, path |-> pathOnly, query |-> query, body |-> body]

\* a message with a separator after the query whether or not a body follows
CanonicalMessageSeparated(apiKey, time, nonce, organizationId, request) ==
    apiKey \o <<NUL>> \o time \o <<NUL>> \o nonce \o <<NUL, NUL>>
       \o (IF organizationId # << >> THEN organizationId ELSE << >>)
       \o <<NUL, NUL>>
       \o request.method \o <<NUL>> \o request.path \o <<NUL>>
       \o (IF JsTruthy(request.query)
           THEN IF request.query.kind = "object"
                THEN QsStringify(request.query.pairs)
                ELSE request.query.text
           ELSE << >>)
       \o <<NUL>>
       \o (IF JsTruthy(request.body)
           THEN IF request.body.kind = "object"
                THEN JsonStringify(request.body.pairs)
                ELSE request.body.text
           ELSE << >>)

\* a message that leaves the method out
CanonicalMessageWithoutMethod(apiKey, time, nonce, organizationId, request) ==
    apiKey \o <<NUL>> \o time \o <<NUL>> \o nonce \o <<NUL, NUL>>
       \o (IF organizationId # << >> THEN organizationId ELSE << >>)
       \o <<NUL, NUL, NUL>> \o request.path \o <<NUL>>
       \o (IF JsTruthy(request.query)
           THEN IF request.query.kind = "object"
                THEN QsStringify(request.query.pairs)
                ELSE request.query.text
           ELSE << >>)
       \o (IF JsTruthy(request.body)
           THEN <<NUL>> \o (IF request.body.kind = "object"
                            THEN JsonStringify(request.body.pairs)
                            ELSE request.body.text)
           ELSE << >>)

\* the text the HMAC is updated with, piece after piece
CanonicalMessage(apiKey, time, nonce, organizationId, request) ==
    apiKey \o <<NUL>> \o time \o <<NUL>> \o nonce \o <<NUL, NUL>>
       \o (IF organizationId # << >> THEN organizationId ELSE << >>)
       \o <<NUL, NUL>>
       \o request.method \o <<NUL>> \o request.path \o <<NUL>>
       \o (IF JsTruthy(request.query)
           THEN IF request.query.kind = "object"
                THEN QsStringify(request.query.pairs)
                ELSE request.query.text
           ELSE << >>)
       \o (IF JsTruthy(request.body)
           THEN <<NUL>> \o (IF request.body.kind = "object"
                            THEN JsonStringify(request.body.pairs)
                            ELSE request.body.text)
           ELSE << >>)

\* getAuthHeader: apiKey, ":" and the hex digest.  The HMAC-SHA256 digest is
\* kept as the pair of its secret and its message.
GetAuthHeader(apiKey, apiSecret, time, nonce, organizationId, request) ==
    [apiKey |-> apiKey,
     hex |-> [secret |-> apiSecret,
              message |-> CanonicalMessage(apiKey, time, nonce, organizationId,
                                           request)]]

\* the time argument shifted by the offset, as the local clock is
TimestampShifted(time, clock, localTimeDiff) ==
    Decimal((IF JsTruthy(time) THEN time.n ELSE clock) + localTimeDiff)

\* (time || (+new Date() + this.localTimeDiff)).toString()
Timestamp(time, clock, localTimeDiff) ==
    Decimal(IF JsTruthy(time) THEN time.n ELSE clock + localTimeDiff)

\* this.localTimeDiff = null
NullDiff == << >>

\* the offset is missing or zero
NotSyncedOrZero(localTimeDiff) == localTimeDiff \in {NullDiff, <<0>>}

\* this.localTimeDiff === null
NotSynced(localTimeDiff) == localTimeDiff = NullDiff

\* new Api({locale, apiHost, apiKey, apiSecret, orgId})
NewApi(orgId) ==
    [locale |-> "en", host |-> "https://api2.nicehash.com",
     key |-> <<"k", "e", "y">>, secret |-> <<"s", "e", "c">>,
     org |-> orgId, localTimeDiff |-> NullDiff, time |-> << >>,
     calls |-> 0, requests |-> 0, last |-> [kind |-> "none"]]

\* Promise.reject(new Error('Get server time first .getTime()'))
Rejected == [kind |-> "rejected", error |-> "Get server time first .getTime()"]

\* the options apiCall hands to request()
RequestOptions(method, pathOnly, query, body, timestamp, nonce) ==
    [uri |-> <<api.host>> \o pathOnly,
     method |-> method,
     headers |->
        [Accept |-> "application/json, text/plain",
         ContentType |-> "application/json; charset=UTF-8",
         XRequestId |-> nonce,
         XUserAgent |-> "homey-nicehash-remote/version",
         XTime |-> timestamp,
         XNonce |-> nonce,
         XUserLang |-> api.locale,
         XOrganizationId |-> api.org,
         XAuth |-> GetAuthHeader(api.key, api.secret, timestamp, nonce, api.org,
                                 AuthInput(method, pathOnly, query, body))],
     qs |-> query,
     body |-> body,
     json |-> TRUE]

\* apiCall(method, path, {query, body, time}), its nonce drawn by createNonce
ApiCall(method, path, query, body, time, nonce) ==
    /\ api.calls < MaxCalls
    /\ IF NotSynced(api.localTimeDiff)
       THEN api' = [api EXCEPT !.calls = @ + 1, !.last = Rejected]
       ELSE \E merged \in {MergeQuery(PathQuery(path), query)} :
            \E timestamp \in {Timestamp(time, now, api.localTimeDiff[1])} :
               api' = [api EXCEPT
                         !.calls = @ + 1,
                         !.requests = @ + 1,
                         !.last =
                            [kind |-> "request",
                             args |-> [method |-> method, path |-> path,
                                       query |-> query, body |-> body,
                                       time |-> time],
                             options |-> RequestOptions(method, PathOnly(path),
                                                        merged, body, timestamp,
                                                        nonce)]]
    /\ UNCHANGED <<dashboard, timers, signer, now, nticks, lastSync, lastMined, benchmarkStart, rollingProfit,
                   details, algorithms, store, cap, tariff, tariff_currency,
                   min_profitability, bitcoinTicker, sent, tick>>

\* getTime() resolved: the server answered serverTime
GetTime(serverTime) ==
    /\ api' = [api EXCEPT !.localTimeDiff = <<serverTime - now>>,
                          !.time = <<serverTime>>,
                          !.last = [kind |-> "time"]]
    /\ UNCHANGED <<dashboard, timers, signer, now, nticks, lastSync, lastMined, benchmarkStart, rollingProfit,
                   details, algorithms, store, cap, tariff, tariff_currency,
                   min_profitability, bitcoinTicker, sent, tick>>

\* getTime() rejected: the request failed and nothing is stored
GetTimeFailed ==
    /\ api' = [api EXCEPT !.last = [kind |-> "timeFailed"]]
    /\ UNCHANGED <<dashboard, timers, signer, now, nticks, lastSync, lastMined, benchmarkStart, rollingProfit,
                   details, algorithms, store, cap, tariff, tariff_currency,
                   min_profitability, bitcoinTicker, sent, tick>>

\* the local clock moves on
ClockAdvance ==
    /\ now < StartTime + MaxClock
    /\ now' = now + 1
    /\ UNCHANGED <<dashboard, timers, signer, api, nticks, lastSync, lastMined, benchmarkStart, rollingProfit,
                   details, algorithms, store, cap, tariff, tariff_currency,
                   min_profitability, bitcoinTicker, sent, tick>>

\* the calls explored: texts, queries, bodies, time overrides, nonces

\* /r
PathPlain == <<"/", "r">>

\* /r, /r?a=1, /r?a=1&b=2, /r?a=1?b=2 and /r?
Paths ==
    { PathPlain,
      <<"/", "r", "?", "a", "=", "1">>,
      <<"/", "r", "?", "a", "=", "1", "&", "b", "=", "2">>,
      <<"/", "r", "?", "a", "=", "1", "?", "b", "=", "2">>,
      <<"/", "r", "?">> }

\* { a: 7 }
QueryA == Obj(<<Pair(<<"a">>, Num(7))>>)

\* none, { a: 7 }, { c: '3', a: '9' } and 'b=2'
Queries ==
    { Undefined,
      QueryA,
      Obj(<<Pair(<<"c">>, Str(<<"3">>)), Pair(<<"a">>, Str(<<"9">>))>>),
      Str(<<"b", "=", "2">>) }

\* { rigId: 'r1', action: 'START' }
BodyStart ==
    Obj(<<Pair(<<"r", "i", "g", "I", "d">>, Str(<<"r", "1">>)),
          Pair(<<"a", "c", "t", "i", "o", "n">>, Str(<<"S", "T", "A", "R", "T">>))>>)

Bodies == {Undefined, BodyStart}

\* a time handed to apiCall
TimeOverride == 12345

Times == {Undefined, Num(0), Num(TimeOverride)}

\* createNonce: 32 characters
Nonces == {[i \in 1..32 |-> c] : c \in {"a", "7"}}

OrgIds == {<< >>, <<"o", "r", "g">>}

\* how far the server clock is from the local one, ms
ClockSkew == 5000

\* the inputs getAuthHeader is applied to: the key, the secret, a time and
\* a nonce, with or without an organisation, two methods, two paths, a
\* query that is absent or an object (a number, the same digit as a string,
\* another value, another key) and a body that is absent, an object or a
\* string
SignInputs ==
    [apiKey : {<<"k", "e", "y">>},
     apiSecret : {<<"s", "e", "c">>},
     time : {Decimal(TimeOverride)},
     nonce : {[i \in 1..32 |-> "a"]},
     organizationId : OrgIds,
     request :
        [method : {<<"G", "E", "T">>, <<"P", "O", "S", "T">>},
         path : {PathPlain, <<"/", "s">>},
         query : {Undefined, QueryA,
                  Obj(<<Pair(<<"a">>, Str(<<"7">>))>>),
                  Obj(<<Pair(<<"a">>, Str(<<"8">>))>>),
                  Obj(<<Pair(<<"b">>, Num(7))>>)},
         body : {Undefined, BodyStart, Str(<<"x">>)}]]

\* no call of getAuthHeader is followed
NoSigner == [inputs |-> << >>, outputs |-> << >>]

\* after onInit: both intervals are set and the invocation of
\* syncRigDetails that onInit makes itself waits for getRigDetails
Started ==
    [detailsSyncTimer |-> TRUE, getAlgorithmsTimer |-> TRUE, deleted |-> FALSE,
     inFlight |-> 1, requests |-> 1, pending |-> {1}, applied |-> 0]

\* both intervals set and no invocation in flight: the state between two
\* invocations, each of which is taken as one step
Running == [Started EXCEPT !.inFlight = 0, !.pending = {}]

\* ------------------------------------------------------------- dashboard

\* the keys of the metrics map of gatherDetails
DashboardMetrics ==
    {"measure_power", "meter_power", "measure_profit", "measure_profit_scarab",
     "meter_profit", "meter_profit_scarab", "measure_cost", "measure_cost_scarab",
     "meter_cost", "meter_cost_scarab", "hashrate"}

\* the dashboard before its first gatherDetails, no other rig paired
NoDashboard ==
    [peers |-> << >>,
     cap |-> [metrics |-> [m \in DashboardMetrics |-> Unset],
              rigs_mining |-> << >>,
              measure_profit_percent |-> Unset]]

\* a sum that takes every rig twice
RECURSIVE SumOfStoresTwice(_, _)
SumOfStoresTwice(rigs, metric) ==
    IF rigs = << >> THEN R(0)
    ELSE LET add == OrElse(Head(rigs)[metric], R(0))
         IN  RAdd(RAdd(add, add), SumOfStoresTwice(Tail(rigs), metric))

\* value += rig.getStoreValue(metric), over rigDevices; a value that was
\* never stored adds nothing
RECURSIVE SumOfStores(_, _)
SumOfStores(rigs, metric) ==
    IF rigs = << >> THEN R(0)
    ELSE RAdd(OrElse(Head(rigs)[metric], R(0)), SumOfStores(Tail(rigs), metric))

\* rigDriver.getDevices(): the rig that is followed and the other rigs
RigDevices == <<store>> \o dashboard.peers

\* gatherDetails, every 7 seconds
GatherDetails ==
    /\ \E revenue \in {SumOfStores(RigDevices, "measure_profit")} :
       \E costPerDayMBTC \in {SumOfStores(RigDevices, "measure_cost")} :
       \E rigs_mining \in {SumOfStores(RigDevices, "mining")} :
          dashboard' =
             [dashboard EXCEPT
                !.cap = [metrics |-> [m \in DashboardMetrics |->
                                        Round2(SumOfStores(RigDevices, m))],
                         rigs_mining |-> Decimal(rigs_mining.n) \o <<"/">>
                                            \o Decimal(Len(RigDevices)),
                         measure_profit_percent |->
                            IF costPerDayMBTC = R(0) THEN Unset
                            ELSE ProfitPct(revenue, costPerDayMBTC)]]
    /\ UNCHANGED <<now, nticks, lastSync, lastMined, benchmarkStart, rollingProfit,
                   details, algorithms, store, cap, tariff, tariff_currency,
                   min_profitability, bitcoinTicker, sent, tick, api, signer, timers>>

\* a further rig is paired; its store holds what the store of a rig holds
\* after the invocations so far
PairRig ==
    /\ Len(dashboard.peers) < MaxPeers
    /\ dashboard' = [dashboard EXCEPT !.peers = Append(@, store)]
    /\ UNCHANGED <<now, nticks, lastSync, lastMined, benchmarkStart, rollingProfit,
                   details, algorithms, store, cap, tariff, tariff_currency,
                   min_profitability, bitcoinTicker, sent, tick, api, signer, timers>>

InitStore ==
    [tariff_limit |-> Unset, hashrate |-> Unset, measure_power |-> Unset,
     mining |-> Unset, measure_profit |-> Unset, measure_profit_scarab |-> Unset,
     measure_profit_percent |-> Unset, measure_cost |-> Unset,
     measure_cost_scarab |-> Unset, meter_power |-> Unset, meter_profit |-> Unset,
     meter_profit_scarab |-> Unset, meter_cost |-> Unset,
     meter_cost_scarab |-> Unset]

InitCap ==
    [smart_mode |-> FALSE, smart_mode_min_profitability |-> Unset,
     measure_tariff_limit |-> Unset, status |-> "", algorithm |-> << >>,
     measure_temperature |-> Unset, measure_load |-> Unset, hashrate |-> Unset,
     onoff |-> FALSE, measure_power |-> Unset, measure_profit |-> Unset,
     measure_profit_scarab |-> Unset, measure_profit_percent |-> Unset,
     measure_cost |-> Unset, measure_cost_scarab |-> Unset,
     meter_power |-> Unset, meter_profit |-> Unset, meter_profit_scarab |-> Unset,
     meter_cost |-> Unset, meter_cost_scarab |-> Unset]

Init ==
    /\ now = StartTime
    /\ nticks = 0
    /\ lastSync = 0
    /\ lastMined = 0
    /\ benchmarkStart = 0
    /\ rollingProfit = R(0)
    /\ details = NoDetails
    /\ algorithms = NoAlgorithms
    /\ store = InitStore
    /\ cap = InitCap
    /\ tariff = Unset
    /\ tariff_currency = ""
    /\ min_profitability = R(0)
    /\ bitcoinTicker = NoTicker
    /\ sent = << >>
    /\ tick = NoTick
    /\ api = NewApi(<< >>)
    /\ dashboard = NoDashboard
    /\ timers = Running
    /\ signer = NoSigner

\* an invocation of syncRigDetails by onInit or by the 60-second timer
Poll(payloads, steps, maxTicks) ==
    /\ nticks < maxTicks
    /\ \E payload \in payloads, dt \in steps, fetchOk \in BOOLEAN :
          SyncRigDetails(payload, dt, fetchOk)
    /\ UNCHANGED timers

\* the settings are made before the first invocation
Configure ==
    /\ nticks = 0
    /\ \/ \E v \in TariffValues : SetTariff(v)
       \/ \E v \in BOOLEAN : SetSmartMode(v)
       \/ \E v \in MinProfitabilityValues : SetMinProfitability(v)
       \/ LoadTicker

\* every payload, under settings that stay as configured
Next ==
    \/ Poll(Payloads, Steps, MaxTicks)
    \/ Configure

Spec == Init /\ [][Next]_vars

\* a longer run of a rig that is stopped or mining, with autopilot on or
\* off and the ticker loaded, while the tariff changes between invocations
RunInit ==
    /\ now = StartTime
    /\ nticks = 0
    /\ lastSync = 0
    /\ lastMined = 0
    /\ benchmarkStart = 0
    /\ rollingProfit = R(0)
    /\ details = NoDetails
    /\ algorithms = NoAlgorithms
    /\ store = InitStore
    /\ cap \in {[InitCap EXCEPT !.smart_mode = v] : v \in BOOLEAN}
    /\ tariff \in TariffValues
    /\ tariff_currency = ""
    /\ min_profitability \in MinProfitabilityValues
    /\ bitcoinTicker = LoadedTicker
    /\ sent = << >>
    /\ tick = NoTick
    /\ api = NewApi(<< >>)
    /\ dashboard = NoDashboard
    /\ timers = Running
    /\ signer = NoSigner

TariffChange == \E v \in TariffValues : SetTariff(v)

RunNext ==
    \/ Poll(RunPayloads, Steps, MaxRunTicks)
    \/ TariffChange

RunSpec == RunInit /\ [][RunNext]_vars

\* getBitcoinTicker fetches again, every 15 minutes, and replaces the ticker
RefreshTicker(rate) ==
    /\ bitcoinTicker # ("USD" :> rate)
    /\ bitcoinTicker' = ("USD" :> rate)
    /\ UNCHANGED <<dashboard, timers, signer, api, now, nticks, lastSync, lastMined, benchmarkStart, rollingProfit,
                   details, algorithms, store, cap, tariff, tariff_currency,
                   min_profitability, sent, tick>>

\* runs for the cumulative meters: a 1000 W rig polled seven minutes or one
\* hour apart, at a tariff fixed from the start, autopilot off, while the
\* exchange rate changes between invocations
MeterInit ==
    /\ now = StartTime
    /\ nticks = 0
    /\ lastSync = 0
    /\ lastMined = 0
    /\ benchmarkStart = 0
    /\ rollingProfit = R(0)
    /\ details = NoDetails
    /\ algorithms = NoAlgorithms
    /\ store = InitStore
    /\ cap = InitCap
    /\ tariff \in {Unset, Q(1, 10)}
    /\ tariff_currency = ""
    /\ min_profitability = R(0)
    /\ bitcoinTicker \in {NoTicker, LoadedTicker}
    /\ sent = << >>
    /\ tick = NoTick
    /\ api = NewApi(<< >>)
    /\ dashboard = NoDashboard
    /\ timers = Running
    /\ signer = NoSigner

TickerChange == \E rate \in TickerRates : RefreshTicker(rate)

MeterNext ==
    \/ Poll(MeterPayloads, MeterSteps, MaxMeterTicks)
    \/ TickerChange

MeterSpec == MeterInit /\ [][MeterNext]_vars

\* the API client on its own: time syncs and authenticated calls
ApiInit ==
    /\ now = StartTime
    /\ nticks = 0
    /\ lastSync = 0
    /\ lastMined = 0
    /\ benchmarkStart = 0
    /\ rollingProfit = R(0)
    /\ details = NoDetails
    /\ algorithms = NoAlgorithms
    /\ store = InitStore
    /\ cap = InitCap
    /\ tariff = Unset
    /\ tariff_currency = ""
    /\ min_profitability = R(0)
    /\ bitcoinTicker = NoTicker
    /\ sent = << >>
    /\ tick = NoTick
    /\ api \in {NewApi(orgId) : orgId \in OrgIds}
    /\ dashboard = NoDashboard
    /\ timers = Running
    /\ signer = NoSigner

\* get(path, options)
Get ==
    \E path \in Paths, query \in Queries, nonce \in Nonces :
       ApiCall(<<"G", "E", "T">>, path, query, Undefined, Undefined, nonce)

\* post(path, options)
Post ==
    \E body \in Bodies, time \in Times, nonce \in Nonces :
       ApiCall(<<"P", "O", "S", "T">>, PathPlain, Undefined, body, time, nonce)

\* put(path, options)
Put ==
    \E nonce \in Nonces : ApiCall(<<"P", "U", "T">>, <<"/", "r", "?", "a", "=", "1">>, QueryA, BodyStart, Undefined, nonce)

\* delete(path, options)
Delete ==
    \E time \in Times, nonce \in Nonces :
       ApiCall(<<"D", "E", "L", "E", "T", "E">>, PathPlain, Undefined, Undefined, time, nonce)

SyncTime == \E skew \in {-ClockSkew, 0} : GetTime(now + skew)

ApiNext ==
    \/ Get
    \/ Post
    \/ Put
    \/ Delete
    \/ SyncTime
    \/ GetTimeFailed
    \/ ClockAdvance

ApiSpec == ApiInit /\ [][ApiNext]_vars

\* ------------------------------------------------- settings and ticker

\* a rig that is stopped or mining, autopilot on or off, its tariff in USD
\* or in a currency the ticker does not list, while the minimum
\* profitability is changed and the ticker is fetched between invocations
HomeInit ==
    /\ now = StartTime
    /\ nticks = 0
    /\ lastSync = 0
    /\ lastMined = 0
    /\ benchmarkStart = 0
    /\ rollingProfit = R(0)
    /\ details = NoDetails
    /\ algorithms = NoAlgorithms
    /\ store = InitStore
    /\ cap \in {[InitCap EXCEPT !.smart_mode = v] : v \in BOOLEAN}
    /\ tariff = Q(1, 20)
    /\ tariff_currency \in {"", "SEK"}
    /\ min_profitability = R(0)
    /\ bitcoinTicker = NoTicker
    /\ sent = << >>
    /\ tick = NoTick
    /\ api = NewApi(<< >>)
    /\ dashboard = NoDashboard
    /\ timers = Running
    /\ signer = NoSigner

HomeNext ==
    \/ Poll(RunPayloads, Steps, MaxHomeTicks)
    \/ \E v \in MinProfitabilityValues : SetMinProfitability(v)
    \/ \E v \in MinProfitabilityValues : SetSmartModeMinProfitability(v)
    \/ TickerChange
    \/ TickerRefreshFailed

HomeSpec == HomeInit /\ [][HomeNext]_vars

\* ----------------------------------------------------------- life cycle

\* the device after onInit, autopilot on
LifeInit ==
    /\ now = StartTime
    /\ nticks = 0
    /\ lastSync = 0
    /\ lastMined = 0
    /\ benchmarkStart = 0
    /\ rollingProfit = R(0)
    /\ details = NoDetails
    /\ algorithms = NoAlgorithms
    /\ store = InitStore
    /\ cap = [InitCap EXCEPT !.smart_mode = TRUE]
    /\ tariff \in {Unset, Q(1, 10)}
    /\ tariff_currency = ""
    /\ min_profitability = R(0)
    /\ bitcoinTicker = LoadedTicker
    /\ sent = << >>
    /\ tick = NoTick
    /\ api = NewApi(<< >>)
    /\ dashboard = NoDashboard
    /\ signer = NoSigner
    /\ timers = Started

\* the 60-second interval fires: syncRigDetails is invoked and waits for
\* getRigDetails
DetailsSyncTimerFires ==
    /\ timers.detailsSyncTimer
    /\ timers.inFlight < MaxInFlight
    /\ nticks + timers.inFlight < MaxLifeTicks
    /\ timers' = [timers EXCEPT !.inFlight = @ + 1,
                                !.requests = @ + 1,
                                !.pending = @ \cup {timers.requests + 1}]
    /\ UNCHANGED <<dashboard, now, nticks, lastSync, lastMined, benchmarkStart, rollingProfit,
                   details, algorithms, store, cap, tariff, tariff_currency,
                   min_profitability, bitcoinTicker, sent, tick, api, signer, dashboard>>

\* getRigDetails settles for one of the invocations in flight, which runs
\* to its end; the requests settle in any order, and the payload a request
\* resolves to is drawn when it settles: any of Payloads, or a v4 rig with
\* a reading whose algorithm the directory does not list
DetailsArrive ==
    /\ timers.inFlight > 0
    /\ \E k \in timers.pending :
          timers' = [timers EXCEPT !.inFlight = @ - 1,
                                   !.pending = @ \ {k},
                                   !.applied = k]
    /\ \E fetchOk \in BOOLEAN :
       \E payload \in Payloads \cup
             {Rig("MANAGED", "MINING", Q(3, 100), FALSE, << >>, TRUE,
                  <<V4Device(<<[algorithm |-> 20, speed |-> R(30000000)],
                               [algorithm |-> 21, speed |-> R(500000)]>>,
                             <<[key |-> "Power usage", value |-> R(250)]>>)>>)} :
          SyncRigDetails(payload, SyncInterval, fetchOk)

\* a throwing invocation whose rejection ends the polling: the interval is
\* cleared when the loop throws
DetailsThrowStopsTimer ==
    /\ timers.inFlight > 0
    /\ \E k \in timers.pending :
          timers' = [timers EXCEPT !.inFlight = @ - 1,
                                   !.pending = @ \ {k},
                                   !.applied = k,
                                   !.detailsSyncTimer = FALSE]
    /\ nticks' = nticks + 1
    /\ now' = now + SyncInterval
    /\ tick' = [NoTick EXCEPT !.handler = "syncRigDetails", !.outcome = "threw",
                              !.at = now + SyncInterval]
    /\ UNCHANGED <<lastSync, lastMined, benchmarkStart, rollingProfit, details,
                   algorithms, store, cap, tariff, tariff_currency,
                   min_profitability, bitcoinTicker, sent, api, signer, dashboard>>

\* getRigDetails settles with a v4 device that has readings but no odv
\* list: the loop over device.odv throws after the capabilities of the
\* header are set, the invocation rejects and this.error logs it
DetailsThrow ==
    /\ timers.inFlight > 0
    /\ \E k \in timers.pending :
          timers' = [timers EXCEPT !.inFlight = @ - 1,
                                   !.pending = @ \ {k},
                                   !.applied = k]
    /\ nticks' = nticks + 1
    /\ now' = now + SyncInterval
    /\ \E fetchOk \in BOOLEAN :
       \E payload \in {Rig("MANAGED", "MINING", Q(3, 100), FALSE, << >>, TRUE,
                           <<V4Device(<<[algorithm |-> 20, speed |-> R(30000000)]>>,
                                      << >>)>>)} :
       \E tariff_limit \in {OrElse(store.tariff_limit, NoLimit)} :
          /\ algorithms' = RefreshedAlgorithms(payload, algorithms, fetchOk)
          /\ cap' = HeaderCaps(payload, tariff_limit)
          /\ tick' = [NoTick EXCEPT !.handler = "syncRigDetails",
                                    !.outcome = "threw",
                                    !.at = now + SyncInterval,
                                    !.type = payload.type,
                                    !.power_tariff = tariff,
                                    !.smart_mode = cap.smart_mode,
                                    !.min_profitability = MinProfitability,
                                    !.before = DeviceFields,
                                    !.tariff_limit = tariff_limit]
    /\ UNCHANGED <<lastSync, lastMined, benchmarkStart, rollingProfit, details,
                   store, tariff, tariff_currency, min_profitability,
                   bitcoinTicker, sent, api, signer, dashboard>>

\* the hourly interval fires: getAlgorithms replaces the table when the
\* request succeeds
AlgorithmsTimerFires ==
    /\ timers.getAlgorithmsTimer
    /\ \E fetchOk \in BOOLEAN :
          algorithms' = IF fetchOk THEN AlgorithmDirectory ELSE algorithms
    /\ UNCHANGED <<dashboard, now, nticks, lastSync, lastMined, benchmarkStart, rollingProfit,
                   details, store, cap, tariff, tariff_currency,
                   min_profitability, bitcoinTicker, sent, tick, api, signer, timers, dashboard>>

\* onDeleted: clearInterval on both timers
OnDeleted ==
    /\ ~timers.deleted
    /\ timers' = [timers EXCEPT !.detailsSyncTimer = FALSE,
                                !.getAlgorithmsTimer = FALSE,
                                !.deleted = TRUE]
    /\ UNCHANGED <<dashboard, now, nticks, lastSync, lastMined, benchmarkStart, rollingProfit,
                   details, algorithms, store, cap, tariff, tariff_currency,
                   min_profitability, bitcoinTicker, sent, tick, api, signer, dashboard>>

LifeNext ==
    \/ DetailsSyncTimerFires
    \/ DetailsArrive
    \/ DetailsThrow
    \/ AlgorithmsTimerFires
    \/ OnDeleted

LifeSpec == LifeInit /\ [][LifeNext]_vars

\* the rigs polled every minute while further rigs are paired and the
\* dashboard gathers
DashNext ==
    \/ Poll({RigStopped, Rig1kWMining,
             Rig("MANAGED", "MINING", Q(1, 100), TRUE,
                 <<Device("MINING", R(50), R(200), R(90),
                          <<Speed("SHA256", R(3456), "H")>>)>>,
                 FALSE, << >>)},
            {SyncInterval}, MaxDashTicks)
    \/ PairRig
    \/ GatherDetails

DashSpec == MeterInit /\ [][DashNext]_vars

\* ------------------------------------------------------- request signer

\* the device and the client as constructed, nothing set and nothing loaded
Constructed ==
    /\ now = StartTime
    /\ nticks = 0
    /\ lastSync = 0
    /\ lastMined = 0
    /\ benchmarkStart = 0
    /\ rollingProfit = R(0)
    /\ details = NoDetails
    /\ algorithms = NoAlgorithms
    /\ store = InitStore
    /\ cap = InitCap
    /\ tariff = Unset
    /\ tariff_currency = ""
    /\ min_profitability = R(0)
    /\ bitcoinTicker = NoTicker
    /\ sent = << >>
    /\ tick = NoTick
    /\ api = NewApi(<< >>)
    /\ dashboard = NoDashboard
    /\ timers = Running

\* two inputs, drawn from SignInputs, wait to be signed
SignInit ==
    /\ Constructed
    /\ signer \in [inputs : SignInputs \X SignInputs, outputs : {<< >>}]

\* getAuthHeader is applied to the next input
Sign ==
    /\ Len(signer.outputs) < Len(signer.inputs)
    /\ \E in \in {signer.inputs[Len(signer.outputs) + 1]} :
          signer' = [signer EXCEPT
                       !.outputs = Append(@, GetAuthHeader(in.apiKey, in.apiSecret,
                                                           in.time, in.nonce,
                                                           in.organizationId,
                                                           in.request))]
    /\ UNCHANGED <<dashboard, timers, now, nticks, lastSync, lastMined, benchmarkStart, rollingProfit,
                   details, algorithms, store, cap, tariff, tariff_currency,
                   min_profitability, bitcoinTicker, sent, tick, api>>

SignSpec == SignInit /\ [][Sign]_vars

\* ---------------------------------------------------------- device loops

\* the rig polled every minute with the payloads of AggPayloads, with or
\* without a tariff and a ticker
AggNext == Poll(AggPayloads, {SyncInterval}, MaxAggTicks)

AggSpec == MeterInit /\ [][AggNext]_vars

\* ---------------------------------------------------------- properties

\* the latest handler was an invocation of syncRigDetails
Synced == tick.handler = "syncRigDetails"

\* the invocation saw the rig mining with a non-zero hashrate
MiningTick == Synced /\ tick.mining > 0 /\ Truthy(tick.hashrate)

\* the invocation saw no device mining
IdleTick == Synced /\ tick.outcome = "idle"

\* the invocation ran more than the benchmark window after the benchmark
\* of the run it belongs to had started
SteadyTick ==
    /\ MiningTick
    /\ tick.before.benchmarkStart > 0
    /\ tick.at - tick.before.benchmarkStart > BenchmarkWindow

\* the stored learned tariff limit as the next invocation reads it
LearnedLimit == OrElse(store.tariff_limit, NoLimit)

\* C1: on a steady tick with autopilot on, a stop command is issued exactly
\* when both the rolling average and the instantaneous profit percent are
\* strictly below the minimum profitability; one of them alone, or equality,
\* does not stop the rig.
C1_DualStopCondition ==
    (SteadyTick /\ tick.smart_mode) =>
        (tick.cmds = <<"STOP">>
            <=> (/\ RLt(rollingProfit, tick.min_profitability)
                 /\ RLt(tick.profitPct, tick.min_profitability)))

\* a steady tick whose rolling average is below the threshold while the
\* instantaneous reading is not, and that issues no command
C1_Witness ==
    /\ SteadyTick
    /\ tick.smart_mode
    /\ RLt(rollingProfit, tick.min_profitability)
    /\ ~RLt(tick.profitPct, tick.min_profitability)
    /\ tick.cmds = << >>

\* C6: when no electricity cost can be priced (no tariff, no exchange rate,
\* or a cost that is not above zero) the profit percent is indeterminate, and
\* a tick with an indeterminate profit percent neither issues a stop command
\* nor writes the learned tariff limit.
C6_IndeterminateNeverActedOn ==
    (Synced /\ tick.outcome = "mining" /\ ~tick.costDefined) =>
        (tick.cmds = << >> /\ ~tick.limitWritten)

\* C7: an invocation whose rig reading is absent, has no type or is of type
\* UNMANAGED leaves rollingProfit, benchmarkStart, lastMined, the stored
\* values (the learned tariff limit and the cumulative meters among them) and
\* the stored previous details as they were, and issues no command.
C7_AbortedTickChangesNothing ==
    [][(nticks' = nticks + 1 /\ tick'.type \in {"NONE", "", "UNMANAGED"}) =>
          (/\ UNCHANGED <<rollingProfit, benchmarkStart, lastMined, store,
                          details, sent>>
           /\ tick'.cmds = << >>)]_vars

\* an unmanaged reading arrives in the middle of a benchmarked run with
\* accumulated meters
C7_Witness ==
    /\ Synced
    /\ tick.type = "UNMANAGED"
    /\ benchmarkStart > 0
    /\ lastMined > 0
    /\ Truthy(store.meter_power)

\* C8: while no more than the benchmark window has passed since
\* benchmarkStart, a mining tick issues no stop command and does not write
\* the learned tariff limit, whatever the profit readings are.
C8_NoDecisionInsideWindow ==
    (Synced /\ tick.outcome = "mining"
       /\ ~(benchmarkStart > 0 /\ tick.at - benchmarkStart > BenchmarkWindow)) =>
        (tick.cmds = << >> /\ ~tick.limitWritten)

\* a tick exactly one benchmark window after the seeding tick, with both
\* readings below the threshold and autopilot on, that issues no command
C8_Witness ==
    /\ MiningTick
    /\ tick.smart_mode
    /\ tick.before.benchmarkStart > 0
    /\ tick.at - benchmarkStart = BenchmarkWindow
    /\ RLt(rollingProfit, tick.min_profitability)
    /\ RLt(tick.profitPct, tick.min_profitability)
    /\ tick.cmds = << >>
    /\ ~tick.limitWritten

\* C9: a tick that sees no device mining sets rollingProfit and
\* benchmarkStart to 0 and the five instantaneous profit and cost readings,
\* stored and displayed, to 0.
C9_IdleReset ==
    IdleTick =>
        /\ rollingProfit = R(0)
        /\ benchmarkStart = 0
        /\ \A f \in {"measure_profit", "measure_profit_scarab",
                     "measure_profit_percent", "measure_cost",
                     "measure_cost_scarab"} :
              store[f] = R(0) /\ cap[f] = R(0)

\* an idle tick that ends a run with a non-zero average and a non-zero cost
C9_Witness ==
    /\ IdleTick
    /\ tick.before.benchmarkStart > 0
    /\ tick.before.rollingProfit # R(0)
    /\ rollingProfit = R(0)
    /\ benchmarkStart = 0
    /\ store.measure_cost = R(0)

\* C10: the first tick that sees the rig mining while benchmarkStart is 0
\* sets benchmarkStart to the time of that tick and rollingProfit to that
\* tick's profit percent.
C10_SeedOnFirstMiningTick ==
    (Synced /\ tick.mining > 0 /\ tick.before.benchmarkStart = 0) =>
        (benchmarkStart = tick.at /\ rollingProfit = tick.profitPct)

\* C2: with autopilot on, an idle tick at tariff 0.10 with no learned limit
\* issues a start command; a steady tick at tariff 0.10 with revenue 10 and
\* cost 20 mBTC/day, after a run whose average stands at -50 %, sets the
\* learned limit to 0.10 and issues a stop command; and an idle tick at
\* tariff 0.05 with the learned limit at 0.10 issues a start command again.
C2_Scenario ==
    /\ (IdleTick /\ tick.smart_mode /\ store.tariff_limit = Unset
          /\ tick.power_tariff = Q(1, 10))
         => tick.cmds = <<"START">>
    /\ (SteadyTick /\ tick.smart_mode /\ tick.power_tariff = Q(1, 10)
          /\ tick.revenue = R(10) /\ tick.costPerDayMBTC = R(20)
          /\ tick.before.rollingProfit = R(-50))
         => (store.tariff_limit = Q(1, 10) /\ tick.cmds = <<"STOP">>)
    /\ (IdleTick /\ tick.smart_mode /\ tick.tariff_limit = Q(1, 10)
          /\ tick.power_tariff = Q(1, 20))
         => tick.cmds = <<"START">>

\* the scenario has run to its end in five ticks: start, a run of three
\* mining ticks ending in a stop that learned 0.10, and a start at 0.05
\* within seven hours of the last mining tick
C2_Witness ==
    /\ IdleTick
    /\ nticks = 5
    /\ sent = <<"START", "STOP", "START">>
    /\ store.tariff_limit = Q(1, 10)
    /\ tick.power_tariff = Q(1, 20)
    /\ tick.at - lastMined <= RebenchmarkTimeout

\* C3: a tick that sees no device mining issues a start command only if
\* autopilot is on and the learned tariff limit is unset, or the tariff is
\* strictly below the learned limit, or the rig has not mined in the last
\* seven hours; so after a stop decision at tariff T no start is issued
\* while the tariff stays at or above T within seven hours of mining.
C3_AntiRestartGuard ==
    (IdleTick /\ tick.cmds = <<"START">>) =>
        /\ tick.smart_mode
        /\ \/ store.tariff_limit = Unset
           \/ RLt(tick.power_tariff, store.tariff_limit)
           \/ lastMined = 0
           \/ tick.at - lastMined > RebenchmarkTimeout

\* C4: with autopilot on, a tick that sees no device mining more than seven
\* hours after lastMined issues a start command whatever the learned tariff
\* limit and the tariff are, so an idle rig is started again at the latest
\* on the first idle tick after that deadline.
C4_ForcedRebenchmark ==
    (IdleTick /\ tick.smart_mode /\ tick.at - lastMined > RebenchmarkTimeout) =>
        tick.cmds = <<"START">>

\* a start forced by the timeout alone: the rig has mined before, a limit
\* is learned and the tariff is not below it
C4_Witness ==
    /\ IdleTick
    /\ tick.smart_mode
    /\ lastMined # 0
    /\ tick.at - lastMined > RebenchmarkTimeout
    /\ tick.tariff_limit # NoLimit
    /\ ~RLt(tick.power_tariff, tick.tariff_limit)
    /\ tick.cmds = <<"START">>

\* C5: the stored learned tariff limit never decreases, except in a tick
\* that takes a stop decision, which sets it to the tariff of that tick.
C5_TariffLimitMonotonic ==
    [][RLt(OrElse(store'.tariff_limit, NoLimit), LearnedLimit) =>
          (/\ nticks' = nticks + 1
           /\ tick'.stopDecision
           /\ store'.tariff_limit = tariff)]_vars

\* a stop decision has lowered a learned limit to the tariff of its tick
C5_Witness ==
    /\ Synced
    /\ tick.stopDecision
    /\ tick.tariff_limit # NoLimit
    /\ store.tariff_limit = tick.power_tariff
    /\ RLt(store.tariff_limit, tick.tariff_limit)

\* a <= b on numbers
RLe(a, b) == ~RLt(b, a)

\* x lies between a and b, whichever of the two is the larger
Between(x, a, b) == (RLe(a, x) /\ RLe(x, b)) \/ (RLe(b, x) /\ RLe(x, a))

\* rollingProfit is the average before the tick, moved one seventh of the
\* way to the tick's profit percent
EmaStep ==
    /\ rollingProfit =
          RAdd(RMul(tick.before.rollingProfit, Q(6, 7)), RMul(tick.profitPct, Q(1, 7)))
    /\ Between(rollingProfit, tick.before.rollingProfit, tick.profitPct)
    /\ (tick.before.rollingProfit = tick.profitPct => rollingProfit = tick.profitPct)

\* C11 as stated: on every tick that sees a device mining after the seeding
\* tick, rollingProfit' = rollingProfit * 6/7 + profitPct * 1/7.
C11_EmaOnEveryMiningTick ==
    (Synced /\ tick.mining > 0 /\ tick.before.benchmarkStart > 0) => EmaStep

\* C11 as the code has it: the seeding tick sets rollingProfit to its
\* profit percent; every later tick that sees a device mining with a
\* non-zero hashrate sets rollingProfit' = rollingProfit * 6/7 +
\* profitPct * 1/7, which lies between the old average and the reading and
\* stays at p when both are p; a tick that sees a device mining with a zero
\* hashrate leaves rollingProfit as it was.
C11_EmaUpdate ==
    /\ (Synced /\ tick.seeded) => rollingProfit = tick.profitPct
    /\ (MiningTick /\ tick.before.benchmarkStart > 0) => EmaStep
    /\ (Synced /\ tick.mining > 0 /\ ~Truthy(tick.hashrate)) =>
          rollingProfit = tick.before.rollingProfit

\* an update that moves a non-zero average towards a different reading
C11_Witness ==
    /\ MiningTick
    /\ tick.before.benchmarkStart > 0
    /\ tick.before.rollingProfit # R(0)
    /\ tick.before.rollingProfit # tick.profitPct
    /\ rollingProfit # tick.before.rollingProfit
    /\ rollingProfit # tick.profitPct

\* C12 as stated: after every invocation of syncRigDetails, whatever its
\* outcome, lastSync is the time of that invocation.
C12_LastSyncAdvancesOnEveryTick ==
    Synced => lastSync = tick.at

\* C12 as the code has it: after an invocation that sees a device mining,
\* or a rig without a device list, lastSync is the time of that invocation;
\* after one that sees no device mining lastSync is 0; one whose reading is
\* absent, has no type or is UNMANAGED leaves lastSync as it was, so the
\* next integrating tick integrates over the time since the latest
\* invocation that got past the early return.
C12_LastSync ==
    /\ (Synced /\ tick.outcome \in {"mining", "nodevices"}) => lastSync = tick.at
    /\ IdleTick => lastSync = 0
    /\ (Synced /\ tick.type \in {"NONE", "", "UNMANAGED"}) =>
          lastSync = tick.before.lastSync
    /\ lastSync <= now

\* a tick integrates over more than one step: the invocation before it
\* returned early and left lastSync behind
C12_Witness ==
    /\ MiningTick
    /\ tick.integrated
    /\ tick.at - tick.before.lastSync > RebenchmarkTimeout
    /\ lastSync = tick.at

\* C13: a tick that sees a device mining while lastSync is set adds
\* (powerUsage / 1000) * (now - lastSync) / 3,600,000 kWh to the stored
\* energy total, revenue * (now - lastSync) / 86,400,000 to the stored
\* revenue total and costPerDayMBTC * (now - lastSync) / 86,400,000 to the
\* stored cost total; 1000 W over one hour add exactly 1 kWh.
C13_MeterIntegration ==
    [][(nticks' = nticks + 1 /\ tick'.mining > 0 /\ lastSync > 0) =>
          /\ store'.meter_power =
                RAdd(OrElse(store.meter_power, R(0)),
                     RMul(RDiv(tick'.powerUsage, R(1000)),
                          Q(now' - lastSync, 3600000)))
          /\ store'.meter_profit =
                RAdd(OrElse(store.meter_profit, R(0)),
                     RMul(tick'.revenue, Q(now' - lastSync, 86400000)))
          /\ store'.meter_cost =
                RAdd(OrElse(store.meter_cost, R(0)),
                     RMul(tick'.costPerDayMBTC, Q(now' - lastSync, 86400000)))
          /\ (tick'.powerUsage = R(1000) /\ now' - lastSync = 3600000) =>
                store'.meter_power = RAdd(OrElse(store.meter_power, R(0)), R(1))]_vars

\* the first integration of a run: 1000 W over one hour, revenue 10 and
\* cost 2 mBTC/day, give 1 kWh, 10/24 mBTC and 2/24 mBTC
C13_Witness ==
    /\ MiningTick
    /\ tick.integrated
    /\ nticks = 2
    /\ tick.powerUsage = R(1000)
    /\ tick.at - tick.before.lastSync = OneHour
    /\ tick.revenue = R(10)
    /\ tick.costPerDayMBTC = R(2)
    /\ store.meter_power = R(1)
    /\ store.meter_profit = Q(10, 24)
    /\ store.meter_cost = Q(2, 24)

\* C14: no stored cumulative total (energy, revenue and cost in mBTC,
\* revenue and cost in local currency) ever decreases from one state to the
\* next, also when the exchange rate changes between two ticks.
C14_MetersNeverDecrease ==
    [][\A f \in {"meter_power", "meter_profit", "meter_cost",
                 "meter_profit_scarab", "meter_cost_scarab"} :
          RLe(OrElse(store[f], R(0)), OrElse(store'[f], R(0)))]_vars

\* C15: a tick that starts with lastSync unset (the very first tick, or the
\* first mining tick after an idle tick) changes none of the five stored
\* cumulative totals.
C15_NoIntegrationWithoutPreviousSync ==
    [][(nticks' = nticks + 1 /\ lastSync = 0) =>
          \A f \in {"meter_power", "meter_profit", "meter_cost",
                    "meter_profit_scarab", "meter_cost_scarab"} :
             store'[f] = store[f]]_vars

\* the first mining tick after an idle tick, with totals already accumulated
C15_Witness ==
    /\ MiningTick
    /\ tick.before.lastSync = 0
    /\ ~tick.integrated
    /\ tick.powerUsage = R(1000)
    /\ tick.revenue = R(10)
    /\ details.type = "MANAGED"
    /\ Truthy(store.meter_power)
    /\ Truthy(store.meter_profit)

\* C16: on a tick that counts no mining device, or that sums the hashrate
\* to 0, the revenue is 0 whatever the payload reports: the instantaneous
\* revenue is stored and shown as 0, the profit percent is computed from a
\* revenue of 0 (or is 0 when it is not computed), and nothing is added to
\* the cumulative revenue total.
C16_IdleTimeNeverRewarded ==
    [][(/\ nticks' = nticks + 1
        /\ tick'.outcome \in {"idle", "mining"}
        /\ (tick'.mining = 0 \/ ~Truthy(tick'.hashrate))) =>
          /\ tick'.revenue = R(0)
          /\ store'.measure_profit = R(0)
          /\ cap'.measure_profit = R(0)
          /\ details'.profitability = R(0) \/ tick'.mining = 0
          /\ tick'.profitPct =
                IF tick'.costDefined
                THEN ProfitPct(R(0), tick'.costPerDayMBTC)
                ELSE R(0)
          /\ store'.meter_profit =
                IF tick'.integrated
                THEN OrElse(store.meter_profit, R(0))
                ELSE store.meter_profit]_vars

\* a tick waiting for a job, integrated over a positive interval after
\* revenue had been accumulated: the total stays and the percentage is -100
C16_Witness ==
    /\ Synced
    /\ tick.outcome = "mining"
    /\ tick.mining > 0
    /\ ~Truthy(tick.hashrate)
    /\ tick.integrated
    /\ tick.at > tick.before.lastSync
    /\ tick.costDefined
    /\ tick.profitPct = R(-100)
    /\ store.measure_profit = R(0)
    /\ Truthy(store.meter_profit)

\* the step is an invocation of apiCall
Called == api'.calls = api.calls + 1

\* the step is an invocation of apiCall that issued its request
Requested == Called /\ api'.last.kind = "request"

\* C17: an authenticated call made while getTime has never succeeded on the
\* client is rejected with the not-synced error and issues no request; a
\* call made after getTime has succeeded, be the offset 0, issues its
\* request.
C17_FailClosedBeforeTimeSync ==
    [][Called =>
          IF api.time = << >>
          THEN /\ api'.last = Rejected
               /\ api'.last.error = "Get server time first .getTime()"
               /\ api'.requests = api.requests
          ELSE /\ api'.last.kind = "request"
               /\ api'.requests = api.requests + 1]_vars

\* a call was rejected, then getTime measured an offset of exactly 0, then
\* a call issued its request
C17_Witness ==
    /\ api.calls = 2
    /\ api.requests = 1
    /\ api.localTimeDiff = <<0>>
    /\ api.last.kind = "request"

\* C18 as stated: the timestamp sent is (the time argument if given, else
\* the local clock) plus the stored offset.
C18_TimestampIsShifted ==
    [][Requested =>
          api'.last.options.headers.XTime =
             Decimal((IF api'.last.args.time.kind = "number"
                      THEN api'.last.args.time.n
                      ELSE now) + api.localTimeDiff[1])]_vars

\* C18: the timestamp sent and signed is the time argument as it is when
\* one is given and is not 0, and the local clock plus the stored offset
\* otherwise.
C18_Timestamp ==
    [][Requested =>
          LET time == api'.last.args.time
              options == api'.last.options
              timestamp ==
                 Decimal(IF time.kind = "number" /\ time.n # 0
                         THEN time.n
                         ELSE now + api.localTimeDiff[1])
          IN  /\ options.headers.XTime = timestamp
              /\ options.headers.XAuth.hex.message =
                    CanonicalMessage(api.key, timestamp, options.headers.XNonce,
                                     api.org,
                                     [method |-> options.method,
                                      path |-> Tail(options.uri),
                                      query |-> options.qs,
                                      body |-> options.body])]_vars

\* a call with a time argument on a client whose offset is -5000 ms: the
\* argument is sent unshifted
C18_Witness ==
    /\ api.last.kind = "request"
    /\ api.last.args.time = Num(TimeOverride)
    /\ api.localTimeDiff = <<-ClockSkew>>
    /\ api.last.options.headers.XTime = Decimal(TimeOverride)

\* C19: when the path carries a query string, the request goes to the path
\* without it, and the query handed over and signed has every key of the
\* explicit query with the explicit value and every key of the path's query
\* string.
C19_QueryMerge ==
    [][(/\ Requested
        /\ IndexOf(api'.last.args.path, "?") > 0
        /\ IndexOf(api'.last.args.path, "?") < Len(api'.last.args.path)) =>
          LET path == api'.last.args.path
              query == api'.last.args.query
              options == api'.last.options
              mark == IndexOf(path, "?")
              fromPath == QsParse(SubSeq(path, mark + 1, Len(path)))
              explicit == CASE query.kind = "object" -> query.pairs
                            [] query.kind = "string" -> QsParse(query.text)
                            [] OTHER -> << >>
          IN  /\ Tail(options.uri) = SubSeq(path, 1, mark - 1)
              /\ options.qs.kind = "object"
              /\ \A key \in Keys(explicit) :
                    /\ HasKey(options.qs.pairs, key)
                    /\ ValueOf(options.qs.pairs, key) = ValueOf(explicit, key)
              /\ \A key \in Keys(fromPath) : HasKey(options.qs.pairs, key)
              /\ options.headers.XAuth.hex.message =
                    CanonicalMessage(api.key, options.headers.XTime,
                                     options.headers.XNonce, api.org,
                                     [method |-> options.method,
                                      path |-> SubSeq(path, 1, mark - 1),
                                      query |-> options.qs,
                                      body |-> options.body])]_vars

\* C20: the X-Auth header of a request is the signature of what the request
\* carries: its X-Time, its X-Nonce (which is also its X-Request-Id), its
\* X-Organization-Id, its method, the path of its uri, its query and its
\* body, under the client's key and secret.
C20_SignedEqualsTransmitted ==
    api.last.kind = "request" =>
       LET options == api.last.options
           headers == options.headers
       IN  /\ headers.XRequestId = headers.XNonce
           /\ options.uri[1] = api.host
           /\ IndexOf(Tail(options.uri), "?") = 0
           /\ headers.XAuth.apiKey = api.key
           /\ headers.XAuth.hex =
                 [secret |-> api.secret,
                  message |->
                     CanonicalMessage(api.key, headers.XTime, headers.XNonce,
                                      headers.XOrganizationId,
                                      [method |-> options.method,
                                       path |-> Tail(options.uri),
                                       query |-> options.qs,
                                       body |-> options.body])]

\* a PUT with an organisation id, a merged query and a body
C20_Witness ==
    /\ api.last.kind = "request"
    /\ api.org = <<"o", "r", "g">>
    /\ api.last.options.method = <<"P", "U", "T">>
    /\ api.last.options.qs = Obj(<<Pair(<<"a">>, Num(7))>>)
    /\ api.last.options.body = BodyStart
    /\ Tail(api.last.options.uri) = PathPlain

\* C29: on a tick that sees the rig mining with a non-zero hashrate, a
\* tariff and a rate for its currency, and a cost per day above 0 mBTC,
\* the stored and shown profit percentage is
\* round((revenue - cost) / cost * 100), where revenue is the reported
\* profitability times 1000 and cost is
\* (tariff * power / 1000 * 24) / (rate / 1000); a revenue of 10 against
\* a cost of 20 gives -50, and a revenue equal to the cost gives 0.
C29_NetProfitPercentage ==
    [][(/\ nticks' = nticks + 1
        /\ tick'.outcome = "mining"
        /\ Truthy(tick'.hashrate)
        /\ Truthy(tariff)
        /\ Currency \in DOMAIN bitcoinTicker) =>
          \A revenueMBTC \in {RMul(details'.profitability, R(1000))} :
          \A kW \in {RDiv(RMul(tariff, tick'.powerUsage), R(1000))} :
          \A costPerDay \in {RMul(kW, R(24))} :
          \A costMBTC \in {RDiv(costPerDay, RDiv(bitcoinTicker[Currency], R(1000)))} :
             RGt(costMBTC, R(0)) =>
                \A profit \in {RSub(revenueMBTC, costMBTC)} :
                \A ratio \in {RDiv(profit, costMBTC)} :
                \A pct \in {MathRound(RMul(ratio, R(100)))} :
                   /\ store'.measure_profit_percent = pct
                   /\ cap'.measure_profit_percent = pct
                   /\ (revenueMBTC = R(10) /\ costMBTC = R(20)) => pct = R(-50)
                   /\ revenueMBTC = costMBTC => pct = R(0)]_vars

\* a mining tick with a revenue of 10 mBTC against a cost of 20 mBTC
C29_Witness ==
    /\ MiningTick
    /\ tick.outcome = "mining"
    /\ tick.costDefined
    /\ tick.revenue = R(10)
    /\ tick.costPerDayMBTC = R(20)
    /\ store.measure_profit_percent = R(-50)
    /\ cap.measure_profit_percent = R(-50)

\* C26: on every invocation that gets past the early return, a
\* rig_status_changed event carrying the new status is emitted exactly when
\* the miner status of the payload differs from the miner status of the
\* payload before it (shown in the status capability); no event on the
\* first payload, none when the status is the same, one per change.
C26_StatusChangeEvent ==
    [][(nticks' = nticks + 1 /\ tick'.outcome # "aborted") =>
          tick'.events =
             IF cap.status # "" /\ cap.status # cap'.status
             THEN <<cap'.status>>
             ELSE << >>]_vars

\* C23: on every invocation that runs the device loops over a payload whose
\* added legacy readings carry one of the suffixes H, kH, MH, GH, TH, PH
\* and EH, the aggregate hashrate is the sum of the added legacy readings,
\* each divided by 1,000,000 / divided by 1,000 / taken as it is /
\* multiplied by 1,000 / 1,000,000 / 10^9 / 10^12 according to its suffix,
\* plus every v4 reading divided by 1,000,000.
C23_UnitNormalisation ==
    [][(nticks' = nticks + 1 /\ tick'.outcome \in {"idle", "mining"}) =>
         LET InMH(v, suffix) ==
                 CASE suffix = "H"  -> RDiv(v, R(1000000))
                   [] suffix = "kH" -> RDiv(v, R(1000))
                   [] suffix = "MH" -> v
                   [] suffix = "GH" -> RMul(v, R(1000))
                   [] suffix = "TH" -> RMul(v, R(1000000))
                   [] suffix = "PH" -> RMul(v, R(1000000000))
                   [] suffix = "EH" -> RMul(RMul(v, R(1000000)), R(1000000))
             Added(devices) ==
                 {i \in 1..Len(devices) : devices[i].status = "MINING"}
             SumOfSpeeds(speeds) ==
                 LET sum[i \in 0..Len(speeds)] ==
                         IF i = 0 THEN R(0)
                         ELSE RAdd(sum[i - 1],
                                   InMH(speeds[i].speed, speeds[i].displaySuffix))
                 IN  sum[Len(speeds)]
             SumOfDevices(devices) ==
                 LET sum[i \in 0..Len(devices)] ==
                         IF i = 0 THEN R(0)
                         ELSE IF i \in Added(devices)
                         THEN RAdd(sum[i - 1], SumOfSpeeds(devices[i].speeds))
                         ELSE sum[i - 1]
                 IN  sum[Len(devices)]
             SumOfReadings(readings) ==
                 LET sum[i \in 0..Len(readings)] ==
                         IF i = 0 THEN R(0)
                         ELSE RAdd(sum[i - 1], RDiv(readings[i].speed, R(1000000)))
                 IN  sum[Len(readings)]
             SumOfV4(devices) ==
                 LET sum[i \in 0..Len(devices)] ==
                         IF i = 0 THEN R(0)
                         ELSE RAdd(sum[i - 1],
                                   SumOfReadings(devices[i].algorithmsSpeed))
                 IN  sum[Len(devices)]
             payload == details'
             legacy == IF payload.hasDevices THEN payload.devices ELSE << >>
             v4 == IF payload.hasV4Rigs THEN payload.v4devices ELSE << >>
         IN  (\A i \in Added(legacy) : \A j \in 1..Len(legacy[i].speeds) :
                 legacy[i].speeds[j].displaySuffix \in
                    {"H", "kH", "MH", "GH", "TH", "PH", "EH"}) =>
               /\ tick'.hashrate = RAdd(SumOfDevices(legacy), SumOfV4(v4))
               /\ store'.hashrate = tick'.hashrate]_vars

\* a payload with readings in GH, TH, PH and EH has been summed: 3 GH,
\* 0.003 TH, 0.001 PH and 0.000001 EH make 2,006,000 MH
C23_Witness ==
    /\ Synced
    /\ details # NoDetails
    /\ \E i \in 1..Len(details.devices) :
          \E j \in 1..Len(details.devices[i].speeds) :
             details.devices[i].speeds[j].displaySuffix = "EH"
    /\ tick.hashrate = R(2006000)
    /\ store.hashrate = R(2006000)

\* C24 (as stated): on every invocation that runs the device loops, the
\* aggregate power and load are the sums, and the temperature the maximum,
\* over the legacy devices that are neither DISABLED nor OFFLINE and the
\* v4 devices, and the mining count does not exceed the number of devices
\* that have a reading with a positive speed.
C24_DeviceContributionRule ==
    [][(nticks' = nticks + 1 /\ tick'.outcome \in {"idle", "mining"}) =>
         LET payload == details'
             legacy == IF payload.hasDevices THEN payload.devices ELSE << >>
             v4 == IF payload.hasV4Rigs THEN payload.v4devices ELSE << >>
             Contributing ==
                 {i \in 1..Len(legacy) : legacy[i].status \notin {"DISABLED", "OFFLINE"}}
             Producing ==
                 {i \in Contributing :
                     \E j \in 1..Len(legacy[i].speeds) :
                        RGt(legacy[i].speeds[j].speed, R(0))}
             ProducingV4 ==
                 {i \in 1..Len(v4) :
                     \E j \in 1..Len(v4[i].algorithmsSpeed) :
                        RGt(v4[i].algorithmsSpeed[j].speed, R(0))}
             Labelled(odv, key) ==
                 LET sum[i \in 0..Len(odv)] ==
                         IF i = 0 THEN R(0)
                         ELSE IF odv[i].key = key THEN RAdd(sum[i - 1], odv[i].value)
                         ELSE sum[i - 1]
                 IN  sum[Len(odv)]
             power[i \in 0..Len(legacy)] ==
                 IF i = 0 THEN R(0)
                 ELSE IF i \in Contributing THEN RAdd(power[i - 1], legacy[i].powerUsage)
                 ELSE power[i - 1]
             powerV4[i \in 0..Len(v4)] ==
                 IF i = 0 THEN R(0)
                 ELSE RAdd(powerV4[i - 1], Labelled(v4[i].odv, "Power usage"))
         IN  /\ tick'.powerUsage = RAdd(power[Len(legacy)], powerV4[Len(v4)])
             /\ tick'.mining <= Cardinality(Producing) + Cardinality(ProducingV4)]_vars

\* C24 (amended): on every invocation that runs the device loops, a legacy
\* device adds to the aggregate power, load and temperature exactly when
\* its status is neither DISABLED nor OFFLINE, and adds one to the mining
\* count exactly when its status is MINING, whatever its speed readings
\* (a MINING device without a reading is counted: the rig is waiting for a
\* job); a v4 device always adds its labelled power, load and temperature,
\* and adds one to the count for each of its readings with a positive speed.
C24_DeviceContribution ==
    [][(nticks' = nticks + 1 /\ tick'.outcome \in {"idle", "mining"}) =>
         LET payload == details'
             legacy == IF payload.hasDevices THEN payload.devices ELSE << >>
             v4 == IF payload.hasV4Rigs THEN payload.v4devices ELSE << >>
             Contributing ==
                 {i \in 1..Len(legacy) : legacy[i].status \notin {"DISABLED", "OFFLINE"}}
             Mining == {i \in 1..Len(legacy) : legacy[i].status = "MINING"}
             Positive(readings) ==
                 {j \in 1..Len(readings) : RGt(readings[j].speed, R(0))}
             Labelled(odv, key) ==
                 LET sum[i \in 0..Len(odv)] ==
                         IF i = 0 THEN R(0)
                         ELSE IF odv[i].key = key THEN RAdd(sum[i - 1], odv[i].value)
                         ELSE sum[i - 1]
                 IN  sum[Len(odv)]
             power[i \in 0..Len(legacy)] ==
                 IF i = 0 THEN R(0)
                 ELSE IF i \in Contributing THEN RAdd(power[i - 1], legacy[i].powerUsage)
                 ELSE power[i - 1]
             load[i \in 0..Len(legacy)] ==
                 IF i = 0 THEN R(0)
                 ELSE IF i \in Contributing THEN RAdd(load[i - 1], legacy[i].load)
                 ELSE load[i - 1]
             powerV4[i \in 0..Len(v4)] ==
                 IF i = 0 THEN R(0)
                 ELSE RAdd(powerV4[i - 1], Labelled(v4[i].odv, "Power usage"))
             loadV4[i \in 0..Len(v4)] ==
                 IF i = 0 THEN R(0)
                 ELSE RAdd(loadV4[i - 1], Labelled(v4[i].odv, "Load"))
             countV4[i \in 0..Len(v4)] ==
                 IF i = 0 THEN 0
                 ELSE countV4[i - 1] + Cardinality(Positive(v4[i].algorithmsSpeed))
             temperatures ==
                 {R(0)} \cup {legacy[i].temperature : i \in Contributing}
                        \cup UNION {{v4[i].odv[j].value :
                                        j \in {l \in 1..Len(v4[i].odv) :
                                                  v4[i].odv[l].key = "Temperature"}} :
                                     i \in 1..Len(v4)}
         IN  /\ tick'.powerUsage = RAdd(power[Len(legacy)], powerV4[Len(v4)])
             /\ store'.measure_power = tick'.powerUsage
             /\ cap'.measure_load = RAdd(load[Len(legacy)], loadV4[Len(v4)])
             /\ cap'.measure_temperature \in temperatures
             /\ \A t \in temperatures : ~RGt(t, cap'.measure_temperature)
             /\ tick'.mining = Cardinality(Mining) + countV4[Len(v4)]]_vars

\* a payload with a DISABLED, an OFFLINE and an INACTIVE device and two
\* MINING devices without a positive reading has been summed: the INACTIVE
\* and the two MINING devices add their power, the two MINING devices are
\* counted
C24_Witness ==
    /\ Synced
    /\ details # NoDetails
    /\ \E i \in 1..Len(details.devices) : details.devices[i].status = "DISABLED"
    /\ \E i \in 1..Len(details.devices) : details.devices[i] = GpuWaiting
    /\ tick.powerUsage = R(10170)
    /\ ~Truthy(tick.hashrate)
    /\ tick.mining = 2

\* C21: the message getAuthHeader feeds the HMAC, cut at its NUL
\* characters, is the sequence of fields apiKey, time, nonce, an empty
\* field, the organisation id (empty when there is none), an empty field,
\* method, path and the query text (empty when there is no query),
\* followed by the body text as a tenth field exactly when there is a
\* body; the digest is keyed with the secret and the header is the key,
\* a colon and the digest.
C21_CanonicalMessageLayout ==
    \A i \in 1..Len(signer.outputs) :
       LET in == signer.inputs[i]
           out == signer.outputs[i]
           fields == Split(out.hex.message, NUL)
           query == in.request.query
           body == in.request.body
           queryText == CASE query.kind = "undefined" -> << >>
                          [] query.kind = "object" -> QsStringify(query.pairs)
                          [] OTHER -> query.text
           bodyText == IF body.kind = "object" THEN JsonStringify(body.pairs)
                       ELSE body.text
       IN  /\ out.apiKey = in.apiKey
           /\ out.hex.secret = in.apiSecret
           /\ Len(fields) = IF body.kind = "undefined" THEN 9 ELSE 10
           /\ SubSeq(fields, 1, 9) =
                 <<in.apiKey, in.time, in.nonce, << >>, in.organizationId, << >>,
                   in.request.method, in.request.path, queryText>>
           /\ body.kind # "undefined" => fields[10] = bodyText

\* a GET of /r with the query { a: 7 } and no body has been signed for the
\* organisation org: the message ends with the query, without a separator
C21_Witness ==
    \E i \in 1..Len(signer.outputs) :
       /\ signer.inputs[i].request.body = Undefined
       /\ signer.inputs[i].request.query = QueryA
       /\ signer.outputs[i].apiKey = <<"k", "e", "y">>
       /\ signer.outputs[i].hex.message =
             <<"k", "e", "y", NUL, "1", "2", "3", "4", "5", NUL>>
                \o [j \in 1..32 |-> "a"]
                \o <<NUL, NUL, "o", "r", "g", NUL, NUL, "G", "E", "T", NUL,
                     "/", "r", NUL, "a", "=", "7">>

\* C22: two applications of getAuthHeader to the same input return the same
\* header; two inputs that are alike except for the method, or the path, or
\* the text of one key or value of an object query, or the text or presence
\* of the body, are signed over different messages and get different
\* headers.
C22_DeterminismAndSensitivity ==
    Len(signer.outputs) = 2 =>
       LET a == signer.inputs[1]
           b == signer.inputs[2]
           Wire(body) == CASE body.kind = "undefined" -> <<"absent">>
                           [] body.kind = "object" ->
                                <<"present", JsonStringify(body.pairs)>>
                           [] OTHER -> <<"present", body.text>>
           Changed(p, q) ==
               {j \in 1..Len(p) : \/ p[j].key # q[j].key
                                  \/ Scalar(p[j].value) # Scalar(q[j].value)}
           OneEntryChanged(p, q) ==
               /\ p.kind = "object" /\ q.kind = "object"
               /\ Len(p.pairs) = Len(q.pairs)
               /\ Cardinality(Changed(p.pairs, q.pairs)) = 1
           AlikeExcept(field) ==
               /\ \A f \in {"apiKey", "apiSecret", "time", "nonce", "organizationId"} :
                     a[f] = b[f]
               /\ \A f \in {"method", "path", "query", "body"} \ {field} :
                     a.request[f] = b.request[f]
           OneFieldChanged ==
               \/ AlikeExcept("method") /\ a.request.method # b.request.method
               \/ AlikeExcept("path") /\ a.request.path # b.request.path
               \/ AlikeExcept("query") /\ OneEntryChanged(a.request.query, b.request.query)
               \/ AlikeExcept("body") /\ Wire(a.request.body) # Wire(b.request.body)
       IN  /\ a = b => signer.outputs[1] = signer.outputs[2]
           /\ OneFieldChanged =>
                 /\ signer.outputs[1].hex.message # signer.outputs[2].hex.message
                 /\ signer.outputs[1] # signer.outputs[2]

\* two POSTs with the same body whose queries are { a: 7 } and { a: '8' }
\* have been signed over different messages
C22_Witness ==
    /\ Len(signer.outputs) = 2
    /\ signer.inputs[1].request.query = QueryA
    /\ signer.inputs[2].request =
          [signer.inputs[1].request EXCEPT
             !.query = Obj(<<Pair(<<"a">>, Str(<<"8">>))>>)]
    /\ signer.inputs[1].request.body = BodyStart
    /\ signer.inputs[1].organizationId = signer.inputs[2].organizationId
    /\ signer.outputs[1].hex.message # signer.outputs[2].hex.message

\* C25: whenever the minimum-profitability setting changes, through the
\* settings or through the flow card, the handler issues one start command,
\* whether the rig is idle, benchmarking or steady and whether autopilot is
\* on or off, and the learned tariff limit, rollingProfit, benchmarkStart,
\* lastMined and lastSync are left as they were.
C25_ManualRebenchmark ==
    [][min_profitability' # min_profitability =>
          /\ tick'.handler \in {"onSettings", "setSmartModeMinProfitability"}
          /\ tick'.cmds = <<"START">>
          /\ store'.tariff_limit = store.tariff_limit
          /\ rollingProfit' = rollingProfit
          /\ benchmarkStart' = benchmarkStart
          /\ lastMined' = lastMined
          /\ lastSync' = lastSync
          /\ sent' = sent]_vars

\* the setting has been changed through the settings, autopilot off, on a
\* rig that is past its benchmark window with a learned tariff limit: the
\* start command is issued and the limit and the average are in place
C25_Witness ==
    /\ tick.handler = "onSettings"
    /\ tick.cmds = <<"START">>
    /\ ~cap.smart_mode
    /\ benchmarkStart > 0
    /\ now - benchmarkStart > BenchmarkWindow
    /\ lastSync = now
    /\ Truthy(store.tariff_limit)

\* C27: an invocation that sees the rig mining at a tariff looks the rate
\* of the tariff's currency up and completes: the lookup yields the cached
\* entry when the ticker is loaded and lists the currency, and null when no
\* ticker is loaded or the currency is not listed, and then no cost is
\* computed; a fetch of the ticker that fails leaves the cached ticker as
\* it was.
C27_RateLookupNeverThrows ==
    [][/\ (nticks' = nticks + 1 /\ tick'.outcome = "mining" /\ Truthy(tariff)) =>
             /\ tick'.handler = "syncRigDetails"
             /\ lastSync' = tick'.at
             /\ IF Currency \in DOMAIN bitcoinTicker
                THEN /\ tick'.rate = bitcoinTicker[Currency]
                     /\ tick'.costDefined = (tick'.mining > 0)
                ELSE /\ tick'.rate = Unset
                     /\ ~tick'.costDefined
                     /\ tick'.costPerDayMBTC = R(0)
                     /\ store'.measure_cost = store.measure_cost
       /\ (tick' # tick /\ tick'.handler = "getBitcoinTicker"
                         /\ tick'.outcome = "failed") =>
             bitcoinTicker' = bitcoinTicker]_vars

\* a mining tick at a tariff in SEK with a ticker that lists USD only: the
\* lookup yielded null and the invocation ran to its end
C27_Witness ==
    /\ Synced
    /\ tick.outcome = "mining"
    /\ Truthy(tick.power_tariff)
    /\ Currency = "SEK"
    /\ "USD" \in DOMAIN bitcoinTicker
    /\ tick.rate = Unset
    /\ ~tick.costDefined
    /\ lastSync = tick.at

\* C28: once the device is deleted both of its intervals are cleared, no
\* further invocation of syncRigDetails is started, and no start or stop
\* command is sent for the rig.
C28_Teardown ==
    [][timers.deleted =>
          /\ ~timers.detailsSyncTimer /\ ~timers'.detailsSyncTimer
          /\ ~timers.getAlgorithmsTimer /\ ~timers'.getAlgorithmsTimer
          /\ timers'.inFlight <= timers.inFlight
          /\ sent' = sent]_vars

\* C30 (as stated): after gatherDetails every metric of the dashboard is
\* the sum of the rigs' stored values, each rig taken once, and the mining
\* count m/n has 0 <= m <= n, n being the number of rigs.
C30_PureSummation ==
    [][dashboard'.cap # dashboard.cap =>
         LET rigs == <<store>> \o dashboard.peers
             Stored(i, metric) ==
                 IF Truthy(rigs[i][metric]) THEN rigs[i][metric] ELSE R(0)
             Sum(metric) ==
                 LET sum[i \in 0..Len(rigs)] ==
                         IF i = 0 THEN R(0) ELSE RAdd(sum[i - 1], Stored(i, metric))
                 IN  sum[Len(rigs)]
         IN  /\ \A metric \in DashboardMetrics :
                   dashboard'.cap.metrics[metric] = Sum(metric)
             /\ \E m \in 0..Len(rigs) :
                   dashboard'.cap.rigs_mining =
                      Decimal(m) \o <<"/">> \o Decimal(Len(rigs))]_vars

\* C30 (amended): after gatherDetails every metric of the dashboard is the
\* sum of the rigs' stored values, each rig taken once, rounded to two
\* decimals, and the mining count m/n has n the number of rigs and m the
\* number of rigs whose store marks them as mining, so 0 <= m <= n.
C30_RoundedSummation ==
    [][dashboard'.cap # dashboard.cap =>
         LET rigs == <<store>> \o dashboard.peers
             Stored(i, metric) ==
                 IF Truthy(rigs[i][metric]) THEN rigs[i][metric] ELSE R(0)
             Sum(metric) ==
                 LET sum[i \in 0..Len(rigs)] ==
                         IF i = 0 THEN R(0) ELSE RAdd(sum[i - 1], Stored(i, metric))
                 IN  sum[Len(rigs)]
             TwoDecimals(v) == R((2 * 100 * v.n + v.d) \div (2 * v.d))
             Mining == {i \in 1..Len(rigs) : rigs[i].mining = R(1)}
         IN  /\ \A metric \in DashboardMetrics :
                   RMul(dashboard'.cap.metrics[metric], R(100)) =
                      TwoDecimals(Sum(metric))
             /\ dashboard'.cap.rigs_mining =
                   Decimal(Cardinality(Mining)) \o <<"/">> \o Decimal(Len(rigs))
             /\ \A i \in 1..Len(rigs) : rigs[i].mining \in {Unset, R(0), R(1)}]_vars

\* the dashboard has gathered two mining rigs whose hashrates of 0.003456 MH
\* sum to 0.006912 MH: it shows 0.01 MH and 2/2
C30_Witness ==
    /\ Len(dashboard.peers) = 1
    /\ store.hashrate = Q(3456, 1000000)
    /\ dashboard.peers[1].hashrate = Q(3456, 1000000)
    /\ dashboard.cap.metrics["hashrate"] = Q(1, 100)
    /\ dashboard.cap.metrics["measure_power"] = R(400)
    /\ dashboard.cap.rigs_mining = <<"2", "/", "2">>

\* C31: on a steady tick, when both the rolling average and the instantaneous
\* profit percent are below the minimum profitability the learned tariff limit
\* is set to the current tariff with autopilot on or off, and the stop command
\* is issued only with autopilot on; otherwise the limit is set to the current
\* tariff when the tariff is strictly above the limit or no limit is learned,
\* and is left unchanged when it is not.
C31_TariffLimitUpdateRule ==
    [][(nticks' = nticks + 1 /\ tick'.steady) =>
         \A limit \in {OrElse(store.tariff_limit, NoLimit)} :
            IF /\ RLt(rollingProfit', MinProfitability)
               /\ RLt(tick'.profitPct, MinProfitability)
            THEN /\ store'.tariff_limit = tariff
                 /\ tick'.cmds = (IF cap.smart_mode THEN <<"STOP">> ELSE << >>)
            ELSE /\ tick'.cmds = << >>
                 /\ IF limit = NoLimit \/ RGt(tariff, limit)
                    THEN store'.tariff_limit = tariff
                    ELSE store'.tariff_limit = store.tariff_limit]_vars

\* with autopilot off, a steady tick found both readings below the threshold:
\* it lowered a learned limit to its tariff and issued no command
C31_Witness ==
    /\ SteadyTick
    /\ ~tick.smart_mode
    /\ tick.stopDecision
    /\ tick.tariff_limit = Q(1, 10)
    /\ store.tariff_limit = Q(1, 20)
    /\ tick.power_tariff = Q(1, 20)
    /\ tick.cmds = << >>

\* C32: a command is repeated by the next invocation whose condition still
\* holds: after a start command, an idle tick on which autopilot is on and
\* the start condition is true issues a start command again; after a stop
\* command, a steady tick on which autopilot is on and both readings are
\* below the threshold issues a stop command again; an earlier command never
\* holds a later one back.
C32_RetryOnNextTick ==
    [][(nticks' = nticks + 1 /\ Synced /\ cap.smart_mode) =>
         \A limit \in {OrElse(store.tariff_limit, NoLimit)} :
            /\ (/\ tick.cmds = <<"START">>
                /\ tick'.outcome = "idle"
                /\ \/ limit = NoLimit
                   \/ RGt(limit, tariff)
                   \/ lastMined = 0
                   \/ now' - lastMined > RebenchmarkTimeout)
                 => (tick'.cmds = <<"START">> /\ sent' = Append(sent, "START"))
            /\ (/\ tick.cmds = <<"STOP">>
                /\ tick'.steady
                /\ RLt(rollingProfit', MinProfitability)
                /\ RLt(tick'.profitPct, MinProfitability))
                 => (tick'.cmds = <<"STOP">> /\ sent' = Append(sent, "STOP"))]_vars

\* the rig kept mining after a stop command and the next steady tick has
\* sent the stop command again
C32_Witness ==
    /\ SteadyTick
    /\ nticks = 5
    /\ tick.cmds = <<"STOP">>
    /\ sent = <<"START", "STOP", "STOP">>

\* C33: the 60-second interval of a rig stays set whatever happens to the
\* invocations it starts: until the device is deleted the interval is set,
\* and no invocation that ends, whether it aborted on a failed request, threw
\* or ran to its end, and whether or not another one is still waiting for
\* its request, changes it; a new invocation is started while an earlier one
\* is still suspended.
C33_TimerIndependentOfTicks ==
    [][/\ ~timers.deleted => timers.detailsSyncTimer
       /\ nticks' = nticks + 1 =>
            /\ timers'.detailsSyncTimer = timers.detailsSyncTimer
            /\ timers'.requests = timers.requests
       /\ timers'.requests > timers.requests =>
            /\ timers.detailsSyncTimer
            /\ timers'.pending = timers.pending \cup {timers'.requests}
            /\ nticks' = nticks]_vars

\* an invocation has thrown and the interval has two further invocations in
\* flight, the second started while the first was waiting for its request
C33_Witness ==
    /\ Synced
    /\ tick.outcome = "threw"
    /\ ~timers.deleted
    /\ timers.detailsSyncTimer
    /\ timers.inFlight = 2
    /\ timers.pending = {timers.requests - 1, timers.requests}

\* C34: the invocations of one rig take effect one after another in the
\* order in which they requested the rig's details: an invocation that ends
\* is the oldest one in flight, so that none applies its reading after an
\* invocation that requested later has applied its own.
C34_SerializedInFetchOrder ==
    [][nticks' = nticks + 1 =>
          \A k \in timers'.pending : k > timers'.applied]_vars

C36_NoCommandsWithAutopilotOff ==
    [][(nticks' = nticks + 1 /\ ~cap.smart_mode) =>
          /\ ~cap'.smart_mode
          /\ ~tick'.smart_mode
          /\ tick'.cmds = << >>
          /\ sent' = sent]_vars

\* with autopilot off a steady tick has found both readings below the
\* threshold and recorded its tariff as the learned limit, and nothing was
\* ever sent
C36_Witness ==
    /\ SteadyTick
    /\ ~tick.smart_mode
    /\ tick.stopDecision
    /\ tick.tariff_limit = NoLimit
    /\ store.tariff_limit = Q(1, 10)
    /\ sent = << >>

\* C37: a tick that counts the rig as mining while the aggregate hashrate is
\* 0 (waiting for a job) leaves rollingProfit, benchmarkStart and the learned
\* tariff limit as they were and sends no command, while lastMined and
\* lastSync are set to the time of that tick.
C37_WaitingForJobFrozen ==
    [][(/\ nticks' = nticks + 1
        /\ tick'.outcome = "mining"
        /\ tick'.mining > 0
        /\ tick'.hashrate = R(0)) =>
          /\ rollingProfit' = rollingProfit
          /\ benchmarkStart' = benchmarkStart
          /\ store'.tariff_limit = store.tariff_limit
          /\ tick'.cmds = << >>
          /\ sent' = sent
          /\ lastMined' = now'
          /\ lastSync' = now']_vars

\* with autopilot on and a threshold of 10, a rig whose rolling average is
\* -50 % waits for a job more than seven minutes after the benchmark began:
\* the average and the benchmark start are kept and nothing is sent
C37_Witness ==
    /\ Synced
    /\ tick.outcome = "mining"
    /\ tick.mining > 0
    /\ tick.hashrate = R(0)
    /\ tick.smart_mode
    /\ tick.min_profitability = R(10)
    /\ tick.before.benchmarkStart > 0
    /\ tick.at - tick.before.benchmarkStart > BenchmarkWindow
    /\ rollingProfit = R(-50)
    /\ benchmarkStart = tick.before.benchmarkStart
    /\ lastSync = tick.at
    /\ lastMined = tick.at
    /\ tick.cmds = << >>

\* C38: after a tick has taken a stop decision at tariff T the learned
\* tariff limit reads as T, whatever T is, 0 and an unset tariff included;
\* a recorded limit never reads as unset.
C38_LearnedLimitRoundTrip ==
    (Synced /\ tick.stopDecision) =>
        /\ OrElse(store.tariff_limit, NoLimit) = tick.power_tariff
        /\ OrElse(store.tariff_limit, NoLimit) # NoLimit

====
